---------------------------- MODULE Spec2Model ----------------------------
(***************************************************************************)
(* Causal-loop-diagram analysis (cld_analysis): the rotation-minimum       *)
(* Levenshtein distance, Sequence, LoopSet and DiagramNetwork, modelled    *)
(* as state machines over small inputs.                                    *)
(***************************************************************************)
EXTENDS Integers, Sequences, FiniteSets, TLC

\* Longest id sequence handed to the edit-distance functions.
MaxLen == 3
\* Longest id sequence in the triples of the triangle bound.
MaxTriLen == 2
\* Number of distinct ids that occur in those sequences.
NumSymbols == 2
\* Most links a network is built from.
MaxLinks == 6
\* Most add_loop calls made on one LoopSet.
MaxAdds == 2
\* Most links appended to one Sequence.
MaxSeqLen == 3
\* Longest string in a cell of a matrix.
MaxCellLen == 3
\* The numbers in the cells of a matrix are the halves k/2, |k| <= MaxCellHalves.
MaxCellHalves == 5

VARIABLES
    pc,                    \* which object is exercised, and how far it got
    lev_a, lev_b, lev_c,   \* arguments of the edit-distance calls
    lev_out,               \* what the calls returned (<<>> before the calls)
    seq,                   \* a Sequence object
    nodes,                 \* DiagramNetwork.nodes
    all_links,             \* the links handed to DiagramNetwork.add_link
    all_nodes, root_idx,   \* get_loops: the snapshot and the next root in it
    objs,                  \* the Sequence objects stored in the LoopSet
    loops,                 \* LoopSet.loops
    loops_list,            \* LoopSet.loops_list
    distances,             \* LoopSet.distances
    next_id,               \* Sequence._id_counter
    scores,                \* <<>>, or <<the dict get_concepts_and_scores returned>>
    concept_next_id,       \* Concept._next_id
    instances,             \* Concept._instances, in insertion order
    cell_idx,              \* the cells of the matrix read so far
    loaders,               \* the LoopSetLoader objects
    call                   \* the last call made: its name, arguments and result

levVars == <<lev_a, lev_b, lev_c, lev_out>>
netVars == <<nodes, all_links, all_nodes, root_idx>>
setVars == <<objs, loops, loops_list, distances, next_id>>
loadVars == <<concept_next_id, instances, cell_idx, loaders>>

vars == <<pc, levVars, seq, netVars, setVars, scores, loadVars, call>>

----------------------------------------------------------------------------
(* utils.py *)

Min2(x, y) == IF x <= y THEN x ELSE y

Min3(x, y, z) == Min2(x, Min2(y, z))

Abs(x) == IF x < 0 THEN -x ELSE x

\* np.zeros((m + 1, n + 1), dtype=int)
ZeroMatrix(m, n) == [ij \in (0 .. m) \X (0 .. n) |-> 0]

\* matrix[i][0] = i ; matrix[0][j] = j
InitBorders(matrix, m, n) ==
    [ij \in (0 .. m) \X (0 .. n) |->
        IF ij[2] = 0 THEN ij[1]
        ELSE IF ij[1] = 0 THEN ij[2]
        ELSE matrix[ij]]

\* one cell of the dynamic programme
CellValue(matrix, i, j, letter_a, letter_b) ==
    LET cost == IF letter_a = letter_b THEN 0 ELSE 1
    IN  Min3(matrix[<<i - 1, j>>] + 1,
             matrix[<<i, j - 1>>] + 1,
             matrix[<<i - 1, j - 1>>] + cost)

RECURSIVE LevFill(_, _, _, _, _)
\* the loops "for j in range(1, n+1): for i in range(1, m+1)", cell by cell
LevFill(matrix, a, b, i, j) ==
    IF j > Len(b) THEN matrix
    ELSE IF i > Len(a) THEN LevFill(matrix, a, b, 1, j + 1)
    ELSE LevFill([matrix EXCEPT ![<<i, j>>] =
                      CellValue(matrix, i, j, a[i], b[j])],
                 a, b, i + 1, j)

levenshtein_distance(a, b) ==
    LET m == Len(a)
        n == Len(b)
        matrix == LevFill(InitBorders(ZeroMatrix(m, n), m, n), a, b, 1, 1)
    IN  matrix[<<m, n>>]

RECURSIVE RowCells(_, _, _, _, _, _, _)
\* the inner loop "for i in range(1, m+1)" of one row j: the matrix and
\* lowest_in_row after it
RowCells(matrix, lowest_in_row, a_double, a_start, letter_b, i, j) ==
    IF 2 * i > Len(a_double) THEN [matrix |-> matrix, lowest_in_row |-> lowest_in_row]
    ELSE LET v == CellValue(matrix, i, j, a_double[a_start + i], letter_b)
         IN  RowCells([matrix EXCEPT ![<<i, j>>] = v], Min2(lowest_in_row, v),
                      a_double, a_start, letter_b, i + 1, j)

RECURSIVE RotationRows(_, _, _, _, _, _, _)
\* the loop "for j in range(1, n+1)" of one rotation, with its early exit
RotationRows(matrix, lowest, a_double, b_double, a_start, b_start, j) ==
    IF 2 * j > Len(b_double) THEN [matrix |-> matrix, early_exit |-> FALSE]
    ELSE LET row == RowCells(matrix, j, a_double, a_start,
                             b_double[b_start + j], 1, j)
         IN  IF row.lowest_in_row >= lowest
             THEN [matrix |-> row.matrix, early_exit |-> TRUE]
             ELSE RotationRows(row.matrix, lowest, a_double, b_double,
                               a_start, b_start, j + 1)

RECURSIVE Rotations(_, _, _, _, _, _, _)
\* the loops "for a_start in range(m): for b_start in range(n)"; a_start and
\* b_start count from 0 as in the source
Rotations(matrix, lowest, a_double, b_double, min_possible, a_start, b_start) ==
    LET m == Len(a_double) \div 2
        n == Len(b_double) \div 2
    IN  IF a_start >= m THEN lowest
        ELSE IF b_start >= n
        THEN Rotations(matrix, lowest, a_double, b_double, min_possible,
                       a_start + 1, 0)
        ELSE LET pass == RotationRows(InitBorders(matrix, m, n), lowest,
                                      a_double, b_double, a_start, b_start, 1)
                 new_lowest == IF pass.early_exit THEN lowest
                               ELSE Min2(pass.matrix[<<m, n>>], lowest)
             IN  IF ~pass.early_exit /\ new_lowest = min_possible
                 THEN new_lowest
                 ELSE Rotations(pass.matrix, new_lowest, a_double, b_double,
                                min_possible, a_start, b_start + 1)

\* the distance with an empty argument taken to be |a|
levenshtein_distance_with_rotation_empty(a, b) ==
    LET m == Len(a)
        n == Len(b)
    IN  IF m = 0 \/ n = 0 THEN m
        ELSE Rotations(ZeroMatrix(m, n), m + n, a \o a, b \o b,
                       IF Abs(m - n) > 0 THEN Abs(m - n) ELSE 0, 0, 0)

\* the distance without the rotations
levenshtein_distance_unrotated(a, b) == levenshtein_distance(a, b)

\* levenshtein_distance_with_rotation(a, b): utils.py
levenshtein_distance_with_rotation(a, b) ==
    LET m == Len(a)
        n == Len(b)
    IN  IF m = 0 \/ n = 0 THEN m + n
        ELSE Rotations(ZeroMatrix(m, n), m + n, a \o a, b \o b,
                       IF Abs(m - n) > 0 THEN Abs(m - n) ELSE 0, 0, 0)


----------------------------------------------------------------------------
(* models.py *)

INCREASES == "INCREASES"
DECREASES == "DECREASES"

\* Link(source, influence, target); a Concept is represented by its id
Link(source, influence, target) ==
    [source |-> source, influence |-> influence, target |-> target]

----------------------------------------------------------------------------
(* Strings are sequences of code points, so that str() and the comparison  *)
(* of strings are computed, not assumed.                                    *)

RECURSIVE Decimal(_)
\* str(n) of an int n >= 0
Decimal(n) ==
    IF n < 10 THEN <<48 + n>> ELSE Decimal(n \div 10) \o <<48 + (n % 10)>>

PrefixLoop     == <<76, 79, 79, 80, 58, 32>>                  \* "LOOP: "
PrefixClosed   == <<67, 76, 79, 83, 69, 68, 58, 32>>          \* "CLOSED: "
PrefixSequence == <<83, 69, 81, 85, 69, 78, 67, 69, 58, 32>>  \* "SEQUENCE: "
TextEmpty      == <<60, 69, 77, 80, 84, 89, 62>>              \* "<EMPTY>"
CharPlus       == <<43>>
CharMinus      == <<45>>
BraceOpen      == <<123>>
BraceClose     == <<125>>

RECURSIVE StrLess(_, _)
\* Python's s < t on strings
StrLess(s, t) ==
    IF t = <<>> THEN FALSE
    ELSE IF s = <<>> THEN TRUE
    ELSE IF Head(s) # Head(t) THEN Head(s) < Head(t)
    ELSE StrLess(Tail(s), Tail(t))

\* s.startswith(p)
StartsWith(s, p) == Len(p) <= Len(s) /\ SubSeq(s, 1, Len(p)) = p

----------------------------------------------------------------------------
(* sequence.py: a Sequence object is a record; a cached value is <<>>       *)
(* (None) or <<value>>.                                                     *)

None == <<>>
Some(v) == <<v>>

RECURSIVE IndexFrom(_, _, _)
IndexFrom(links, concept, i) ==
    IF i > Len(links) THEN -1
    ELSE IF links[i].source = concept THEN i - 1
    ELSE IndexFrom(links, concept, i + 1)

\* Sequence._index_of_source_with_concept: 0-based index, or -1
index_of_source_with_concept(links, concept) == IndexFrom(links, concept, 1)

\* the count taken over the INCREASES links
CountNegative_increases(links) ==
    Cardinality({i \in 1 .. Len(links) : links[i].influence = INCREASES})

\* Sequence._set_count_negative_influences
CountNegative(links) ==
    Cardinality({i \in 1 .. Len(links) : links[i].influence = DECREASES})

\* Sequence._init: count, _detect_closed_loop, both caches reset
SeqInit(s) ==
    LET idx == IF Len(s.links) = 0 THEN -1
               ELSE index_of_source_with_concept(s.links,
                                                 s.links[Len(s.links)].target)
    IN  [s EXCEPT !.count_negative_influences = CountNegative(s.links),
                  !.is_closed = (idx # -1),
                  !.is_loop = (idx = 0),
                  !.sequence_as_ints = None,
                  !.representation = None]

\* Sequence(): the object as __init__ leaves it, id taken from _id_counter
NewSequence(id) ==
    [links |-> <<>>, id |-> id, is_loop |-> FALSE, is_closed |-> FALSE,
     count_negative_influences |-> 0,
     sequence_as_ints |-> None, representation |-> None]

\* Sequence(copy_from=other)
CopySequence(other, id) ==
    SeqInit([NewSequence(id) EXCEPT !.links = other.links])

\* Sequence(links=...)
SequenceOfLinks(links, id) ==
    SeqInit([NewSequence(id) EXCEPT !.links = links])

\* add_link without the test of is_closed
add_link_unchecked(s, link) ==
    SeqInit([s EXCEPT !.links = Append(s.links, link)])

\* Sequence.add_link: the object afterwards
add_link(s, link) ==
    IF s.is_closed THEN s
    ELSE SeqInit([s EXCEPT !.links = Append(s.links, link)])

\* Sequence.add_link: the value returned
add_link_result(s) == ~s.is_closed

\* Sequence.rotate
rotate(s) ==
    IF ~s.is_loop \/ Len(s.links) = 0 THEN s
    ELSE [s EXCEPT !.links = Append(Tail(s.links), Head(s.links))]

RECURSIVE RotateUntil(_, _)
\* while self.links[0].source.id != concept.id: self.rotate()
RotateUntil(s, concept) ==
    IF s.links[1].source = concept THEN s ELSE RotateUntil(rotate(s), concept)

\* Sequence.rotate_to_concept
rotate_to_concept(s, concept) ==
    IF ~s.is_loop THEN s
    ELSE IF index_of_source_with_concept(s.links, concept) = -1 THEN s
    ELSE IF Len(s.links) = 0 THEN s
    ELSE RotateUntil(s, concept)

\* min(self.links, key=lambda link: link.source.id).source
LowestConcept(links) ==
    LET i == CHOOSE i \in 1 .. Len(links) :
                 /\ \A j \in 1 .. Len(links) : links[i].source <= links[j].source
                 /\ \A j \in 1 .. (i - 1) : links[j].source # links[i].source
    IN  links[i].source

\* rotate_to_standard leaving the loop as it is
rotate_to_standard_not(s) == s

\* Sequence.rotate_to_standard
rotate_to_standard(s) ==
    IF ~s.is_loop \/ Len(s.links) = 0 THEN s
    ELSE rotate_to_concept(s, LowestConcept(s.links))

\* Sequence.get_size
get_size(s) == Len(s.links)

\* [link.source.id for link in self.links]
SourceIds(links) == [i \in 1 .. Len(links) |-> links[i].source]

\* Sequence.get_sequence_as_ints: the value returned
get_sequence_as_ints(s) ==
    IF s.sequence_as_ints = None THEN SourceIds(s.links)
    ELSE s.sequence_as_ints[1]

\* Sequence.get_sequence_as_ints: the object afterwards
CacheInts(s) ==
    [s EXCEPT !.sequence_as_ints = Some(get_sequence_as_ints(s))]

RECURSIVE ReprLinks(_, _, _)
\* the loop over the links in _create_short_representation
ReprLinks(s, i, result) ==
    IF i > Len(s.links) THEN result
    ELSE LET link == s.links[i]
             symbol == IF link.influence = INCREASES THEN CharPlus ELSE CharMinus
             target_str == IF s.is_closed /\ i = Len(s.links)
                           THEN BraceOpen \o Decimal(link.target) \o BraceClose
                           ELSE Decimal(link.target)
         IN  ReprLinks(s, i + 1, result \o symbol \o target_str)

\* Sequence._create_short_representation
create_short_representation(s) ==
    LET prefix == IF s.is_loop THEN PrefixLoop
                  ELSE IF s.is_closed THEN PrefixClosed
                  ELSE PrefixSequence
    IN  IF Len(s.links) = 0 THEN prefix \o TextEmpty
        ELSE ReprLinks(s, 1, prefix \o Decimal(s.links[1].source))

\* Sequence.__str__: the value returned
Str(s) ==
    IF s.representation = None THEN create_short_representation(s)
    ELSE s.representation[1]

\* Sequence.__str__: the object afterwards
CacheStr(s) == [s EXCEPT !.representation = Some(Str(s))]

\* Sequence.__eq__
SeqEq(s, t) == get_size(s) = get_size(t) /\ Str(s) = Str(t)

\* Sequence.__lt__
SeqLess(s, t) == StrLess(Str(s), Str(t))

REINFORCING_LOOP == "REINFORCING_LOOP"
BALANCING_LOOP == "BALANCING_LOOP"
POSITIVE == "POSITIVE"
NEGATIVE == "NEGATIVE"

\* Sequence.get_type
get_type(s) ==
    IF ~s.is_closed THEN "OPEN"
    ELSE IF ~s.is_loop THEN "CLOSED"
    ELSE IF s.count_negative_influences % 2 = 1 THEN BALANCING_LOOP
    ELSE REINFORCING_LOOP

\* Sequence.get_polarity
get_polarity(s) ==
    IF s.count_negative_influences % 2 = 1 THEN NEGATIVE ELSE POSITIVE

\* Sequence.has_source
has_source(s, concept) == index_of_source_with_concept(s.links, concept) # -1

\* Sequence.get_all_concepts
SeqAllConcepts(s) ==
    {s.links[i].source : i \in 1 .. Len(s.links)}
        \cup (IF Len(s.links) > 0 THEN {s.links[Len(s.links)].target} ELSE {})

\* Sequence.contains_link
contains_link(s, source, target) ==
    \E i \in 1 .. Len(s.links) :
        s.links[i].source = source /\ s.links[i].target = target

----------------------------------------------------------------------------
(* Floats are modelled as exact fractions num/den in lowest terms;          *)
(* float('inf') is 1/0.                                                     *)

RECURSIVE Gcd(_, _)
Gcd(x, y) == IF y = 0 THEN x ELSE Gcd(y, x % y)

Frac(n, d) ==
    LET g == Gcd(Abs(n), d)
    IN  IF g = 0 THEN [num |-> 0, den |-> 1] ELSE [num |-> n \div g, den |-> d \div g]

Inf == [num |-> 1, den |-> 0]

FracOfInt(n) == [num |-> n, den |-> 1]

FracLess(x, y) == x.num * y.den < y.num * x.den

FracAdd(x, y) == Frac(x.num * y.den + y.num * x.den, x.den * y.den)

FracMul(x, y) == Frac(x.num * y.num, x.den * y.den)

\* distance normalised by twice the length of self
distance_by_first(s, other) ==
    IF ~s.is_loop \/ ~other.is_loop THEN Inf
    ELSE IF Len(s.links) = 0 \/ Len(other.links) = 0 THEN Inf
    ELSE LET a == get_sequence_as_ints(s)
             b == get_sequence_as_ints(other)
             lev_dist == levenshtein_distance_with_rotation(a, b)
             denominator == Len(a) + Len(a)
         IN  IF denominator > 0 THEN Frac(lev_dist, denominator)
             ELSE FracOfInt(0)

\* Sequence.distance: the value returned
distance(s, other) ==
    IF ~s.is_loop \/ ~other.is_loop THEN Inf
    ELSE IF Len(s.links) = 0 \/ Len(other.links) = 0 THEN Inf
    ELSE LET a == get_sequence_as_ints(s)
             b == get_sequence_as_ints(other)
             lev_dist == levenshtein_distance_with_rotation(a, b)
             denominator == Len(a) + Len(b)
         IN  IF denominator > 0 THEN Frac(lev_dist, denominator)
             ELSE FracOfInt(0)

\* Sequence.distance: whether it reaches the get_sequence_as_ints() calls
DistanceReadsInts(s, other) ==
    s.is_loop /\ other.is_loop /\ Len(s.links) # 0 /\ Len(other.links) # 0

----------------------------------------------------------------------------
(* loop_set.py.  The Sequence objects a LoopSet holds live in objs, keyed  *)
(* by a reference (the id the object got from Sequence._id_counter when it *)
(* was created); loops and loops_list hold references, so that both see a  *)
(* change made to a stored object.  A store ls is the record               *)
(*   [objs, loops, loops_list, distances, next_id]                         *)
(* where next_id is Sequence._id_counter.                                  *)

\* LoopSet()
NewLoopSet(counter) ==
    [objs |-> <<>>, loops |-> {}, loops_list |-> <<>>, distances |-> <<>>,
     next_id |-> counter]

\* add_loop without the look-up of the representation
add_loop_always(ls, to_add) ==
    IF ~to_add.is_loop THEN [ls |-> ls, ret |-> None]
    ELSE LET ref == ls.next_id
             loop == CacheStr(rotate_to_standard(CopySequence(to_add, ref)))
         IN  [ls |-> [ls EXCEPT
                         !.next_id = ref + 1,
                         !.loops = @ \cup {ref},
                         !.objs = [r \in DOMAIN @ \cup {ref} |->
                                      IF r = ref THEN loop ELSE @[r]]],
              ret |-> Some(ref)]

\* LoopSet.add_loop: the store afterwards and the reference returned
\* (None when to_add is not a loop)
add_loop(ls, to_add) ==
    IF ~to_add.is_loop THEN [ls |-> ls, ret |-> None]
    ELSE LET ref == ls.next_id
             loop == CacheStr(rotate_to_standard(CopySequence(to_add, ref)))
             rep == Str(loop)
             counted == [ls EXCEPT !.next_id = ref + 1]
             existing == {r \in ls.loops : Str(ls.objs[r]) = rep}
         IN  IF existing # {}
             THEN [ls |-> counted, ret |-> Some(CHOOSE r \in existing : TRUE)]
             ELSE [ls |-> [counted EXCEPT
                              !.loops = @ \cup {ref},
                              !.objs = [r \in DOMAIN @ \cup {ref} |->
                                           IF r = ref THEN loop ELSE @[r]]],
                   ret |-> Some(ref)]

RECURSIVE SortedRefs(_, _)
\* sorted(list(self.loops)): ascending by Sequence.__lt__
SortedRefs(heap, refs) ==
    IF refs = {} THEN <<>>
    ELSE LET first == CHOOSE r \in refs :
                          \A q \in refs : ~SeqLess(heap[q], heap[r])
         IN  <<first>> \o SortedRefs(heap, refs \ {first})

\* 0-based position of ref in list
IndexOf(list, ref) == (CHOOSE i \in 1 .. Len(list) : list[i] = ref) - 1

RECURSIVE RefsAscending(_)
RefsAscending(refs) ==
    IF refs = {} THEN <<>>
    ELSE LET first == CHOOSE r \in refs : \A q \in refs : r <= q
         IN  <<first>> \o RefsAscending(refs \ {first})

\* finalize without the sort: the loops listed in the order they were stored
finalize_unsorted(ls) ==
    LET list == RefsAscending(ls.loops)
    IN  [ls EXCEPT !.loops_list = list,
                   !.objs = [r \in DOMAIN @ |->
                                IF r \in ls.loops
                                THEN [@[r] EXCEPT !.id = IndexOf(list, r)]
                                ELSE @[r]]]

\* LoopSet.finalize
finalize(ls) ==
    LET list == SortedRefs(ls.objs, ls.loops)
    IN  [ls EXCEPT !.loops_list = list,
                   !.objs = [r \in DOMAIN @ |->
                                IF r \in ls.loops
                                THEN [@[r] EXCEPT !.id = IndexOf(list, r)]
                                ELSE @[r]]]

\* LoopSet.get_size
loopset_get_size(ls) == Cardinality(ls.loops)

RECURSIVE InsertBySize_strict(_, _, _)
\* ref placed behind the larger entries only, so that loops of one size come
\* out in the reverse of their order in loops_list
InsertBySize_strict(heap, sorted, ref) ==
    IF sorted = <<>> THEN <<ref>>
    ELSE IF get_size(heap[Head(sorted)]) > get_size(heap[ref])
    THEN <<Head(sorted)>> \o InsertBySize_strict(heap, Tail(sorted), ref)
    ELSE <<ref>> \o sorted

RECURSIVE InsertBySize(_, _, _)
\* ref placed behind every entry of sorted that is at least as large
InsertBySize(heap, sorted, ref) ==
    IF sorted = <<>> THEN <<ref>>
    ELSE IF get_size(heap[Head(sorted)]) >= get_size(heap[ref])
    THEN <<Head(sorted)>> \o InsertBySize(heap, Tail(sorted), ref)
    ELSE <<ref>> \o sorted

RECURSIVE StableSortBySize(_, _, _)
StableSortBySize(heap, list, sorted) ==
    IF list = <<>> THEN sorted
    ELSE StableSortBySize(heap, Tail(list), InsertBySize(heap, sorted, Head(list)))

\* LoopSet.loops_sorted_by_size: sorted(loops_list, key=size, reverse=True),
\* a stable sort (equal sizes keep their order in loops_list)
loops_sorted_by_size(ls) == StableSortBySize(ls.objs, ls.loops_list, <<>>)

\* LoopSet.loops_containing_link
loops_containing_link(ls, source, target) ==
    Cardinality({r \in ls.loops : contains_link(ls.objs[r], source, target)})

\* LoopSet.loops_containing_concept
loops_containing_concept(ls, concept) ==
    Cardinality({r \in ls.loops : has_source(ls.objs[r], concept)})

\* the key with min() written twice
DistanceKey_min_twice(seq_a, seq_b) ==
    <<Min2(seq_a.id, seq_b.id), Min2(seq_a.id, seq_b.id)>>

\* the cache key of get_distance
DistanceKey(seq_a, seq_b) ==
    <<Min2(seq_a.id, seq_b.id), IF seq_a.id >= seq_b.id THEN seq_a.id ELSE seq_b.id>>

\* LoopSet.get_distance: the value returned
get_distance(ls, ref_a, ref_b) ==
    LET key == DistanceKey(ls.objs[ref_a], ls.objs[ref_b])
    IN  IF key \in DOMAIN ls.distances THEN ls.distances[key]
        ELSE distance(ls.objs[ref_a], ls.objs[ref_b])

\* LoopSet.get_distance: the store afterwards (the cache entry, and the
\* _sequence_as_ints caches that Sequence.distance fills)
after_get_distance(ls, ref_a, ref_b) ==
    LET seq_a == ls.objs[ref_a]
        seq_b == ls.objs[ref_b]
        key == DistanceKey(seq_a, seq_b)
    IN  IF key \in DOMAIN ls.distances THEN ls
        ELSE [ls EXCEPT
                 !.distances = [k \in DOMAIN @ \cup {key} |->
                                   IF k = key THEN distance(seq_a, seq_b) ELSE @[k]],
                 !.objs = [r \in DOMAIN @ |->
                              IF r \in {ref_a, ref_b} /\ DistanceReadsInts(seq_a, seq_b)
                              THEN CacheInts(@[r]) ELSE @[r]]]

\* LoopSet.get_all_concepts
get_all_concepts(ls) == UNION {SeqAllConcepts(ls.objs[r]) : r \in ls.loops}

RECURSIVE SourceLoops(_, _, _)
\* [{'seq': loop, 'score': 1.0} for loop in loops_by_size if loop.has_source(concept)]
SourceLoops(heap, loops_by_size, concept) ==
    IF loops_by_size = <<>> THEN <<>>
    ELSE (IF has_source(heap[Head(loops_by_size)], concept)
          THEN <<[seq |-> Head(loops_by_size), score |-> FracOfInt(1)]>>
          ELSE <<>>) \o SourceLoops(heap, Tail(loops_by_size), concept)

\* one call self.get_distance(seq_a, seq_b): the store afterwards and the
\* value returned
get_distance_call(ls, ref_a, ref_b) ==
    [ls |-> after_get_distance(ls, ref_a, ref_b),
     ret |-> get_distance(ls, ref_a, ref_b)]

\* UpdateScore leaving every score at its initial 1.0
UpdateScore_never(got, source_loops, i) ==
    [ls |-> got.ls, source_loops |-> source_loops]

\* if dist < source_loop['score']: source_loop['score'] = dist
UpdateScore(got, source_loops, i) ==
    [ls |-> got.ls,
     source_loops |-> IF FracLess(got.ret, source_loops[i].score)
                      THEN [source_loops EXCEPT ![i].score = got.ret]
                      ELSE source_loops]

RECURSIVE UpdateDistances(_, _, _)
\* "for source_loop in source_loops" from the i-th entry on; st is the store
\* and the entries, before and after
UpdateDistances(st, i, last_added) ==
    IF i > Len(st.source_loops) THEN st
    ELSE UpdateDistances(
             UpdateScore(get_distance_call(st.ls, st.source_loops[i].seq,
                                           last_added.seq),
                         st.source_loops, i),
             i + 1, last_added)

RECURSIVE MinIndex(_, _, _, _)
\* the search for min_idx (1-based here): a later entry wins only when
\* strictly smaller
MinIndex(source_loops, i, min_idx, min_score) ==
    IF i > Len(source_loops) THEN min_idx
    ELSE IF FracLess(source_loops[i].score, min_score)
    THEN MinIndex(source_loops, i + 1, i, source_loops[i].score)
    ELSE MinIndex(source_loops, i + 1, min_idx, min_score)

\* list.pop(i), 1-based: the list afterwards
RemoveAt(list, i) == SubSeq(list, 1, i - 1) \o SubSeq(list, i + 1, Len(list))

RECURSIVE ProcessRemaining(_, _, _)
RECURSIVE PopClosest(_, _)

\* "while source_loops": the store and final_score afterwards; st is the
\* store and the entries not yet added
ProcessRemaining(st, last_added, final_score) ==
    IF st.source_loops = <<>> THEN [ls |-> st.ls, final_score |-> final_score]
    ELSE PopClosest(UpdateDistances(st, 1, last_added), final_score)

\* the rest of one round of "while source_loops": the entry with the least
\* score is popped and added, and the next round starts
PopClosest(upd, final_score) ==
    LET min_idx == MinIndex(upd.source_loops, 1, 1, Inf)
        popped == upd.source_loops[min_idx]
    IN  ProcessRemaining(
            [ls |-> upd.ls, source_loops |-> RemoveAt(upd.source_loops, min_idx)],
            popped,
            FracAdd(final_score,
                    FracMul(FracOfInt(get_size(upd.ls.objs[popped.seq])),
                            popped.score)))

\* concepts_and_scores[concept] = final_score
SetScore(done, table, concept) ==
    [ls |-> done.ls,
     scores |-> [c \in DOMAIN table \cup {concept} |->
                    IF c = concept THEN done.final_score ELSE table[c]]]

\* ScoreConcept skipping only the concepts in no loop (num_loops < 1)
ScoreConcept_single(acc, loops_by_size, concept) ==
    LET source_loops == SourceLoops(acc.ls.objs, loops_by_size, concept)
        num_loops == Len(source_loops)
        last_added == source_loops[num_loops]
    IN  IF num_loops < 1 THEN acc
        ELSE SetScore(
                 ProcessRemaining(
                     [ls |-> acc.ls,
                      source_loops |-> SubSeq(source_loops, 1, num_loops - 1)],
                     last_added,
                     FracOfInt(get_size(acc.ls.objs[last_added.seq]))),
                 acc.scores, concept)

\* the body of "for concept in concepts"; acc is the store and the score
\* table, before and after
ScoreConcept(acc, loops_by_size, concept) ==
    LET source_loops == SourceLoops(acc.ls.objs, loops_by_size, concept)
        num_loops == Len(source_loops)
        last_added == source_loops[num_loops]
    IN  IF num_loops <= 1 THEN acc
        ELSE SetScore(
                 ProcessRemaining(
                     [ls |-> acc.ls,
                      source_loops |-> SubSeq(source_loops, 1, num_loops - 1)],
                     last_added,
                     FracOfInt(get_size(acc.ls.objs[last_added.seq]))),
                 acc.scores, concept)

\* the concept a loop over the set takes first: the one of least id
FirstConcept(concepts) == CHOOSE c \in concepts : \A d \in concepts : c <= d

RECURSIVE ScoreConcepts(_, _, _)
\* "for concept in concepts".  concepts is a Python set; the concepts are
\* taken in ascending id order here
ScoreConcepts(acc, loops_by_size, concepts) ==
    IF concepts = {} THEN acc
    ELSE ScoreConcepts(ScoreConcept(acc, loops_by_size, FirstConcept(concepts)),
                       loops_by_size, concepts \ {FirstConcept(concepts)})

\* LoopSet.get_concepts_and_scores: the store afterwards and the dict returned
get_concepts_and_scores(ls) ==
    ScoreConcepts([ls |-> ls, scores |-> <<>>], loops_sorted_by_size(ls),
                  get_all_concepts(ls))

----------------------------------------------------------------------------
(* network.py.  DiagramNetwork.nodes is a dict iterated in insertion order: *)
(* a sequence of Node records.  Node.outward_links is iterated by the       *)
(* search, so it is a sequence in insertion order; Node.inward_links is     *)
(* only tested for membership and emptiness, so it is the set of its links. *)

\* Node(concept)
NewNode(concept) ==
    [concept |-> concept, outward_links |-> <<>>, inward_links |-> {}]

\* concept in self.nodes
HasNode(net, concept) == \E i \in 1 .. Len(net) : net[i].concept = concept

\* position of self.nodes[concept]
NodeIndex(net, concept) == CHOOSE i \in 1 .. Len(net) : net[i].concept = concept

\* add_inward_link that stores the link whether or not the source has one
add_inward_link_overwrite(node, link) ==
    [node EXCEPT !.inward_links =
                     {l \in @ : l.source # link.source} \cup {link}]

\* Node.add_inward_link
add_inward_link(node, link) ==
    IF \E l \in node.inward_links : l.source = link.source THEN node
    ELSE [node EXCEPT !.inward_links = @ \cup {link}]

\* add_outward_link keeping only the link added last
add_outward_link_last_only(node, link) ==
    [node EXCEPT !.outward_links = <<link>>]

\* Node.add_outward_link
add_outward_link(node, link) ==
    IF \E i \in 1 .. Len(node.outward_links) :
           node.outward_links[i].target = link.target
    THEN node
    ELSE [node EXCEPT !.outward_links = Append(@, link)]

\* is_sink that also takes a node with one outward link for a sink
is_sink_single(node) == Len(node.outward_links) <= 1

\* Node.is_sink
is_sink(node) == Len(node.outward_links) = 0

\* Node.is_source
is_source(node) == node.inward_links = {}

RECURSIVE WithoutTarget(_, _)
\* del self.outward_links[concept]
WithoutTarget(links, concept) ==
    IF links = <<>> THEN <<>>
    ELSE (IF Head(links).target = concept THEN <<>> ELSE <<Head(links)>>)
             \o WithoutTarget(Tail(links), concept)

\* remove_links_to without the test of the inward links
remove_links_to_outward_only(node, concept) ==
    [node EXCEPT !.outward_links = WithoutTarget(@, concept)]

\* Node.remove_links_to
remove_links_to(node, concept) ==
    [node EXCEPT !.outward_links = WithoutTarget(@, concept),
                 !.inward_links = {l \in @ : l.source # concept}]

\* if concept not in self.nodes: self.nodes[concept] = Node(concept)
EnsureNode(net, concept) ==
    IF HasNode(net, concept) THEN net ELSE Append(net, NewNode(concept))

\* DiagramNetwork.add_link
network_add_link(net, link) ==
    LET n1 == EnsureNode(net, link.source)
        n2 == [n1 EXCEPT ![NodeIndex(n1, link.source)] = add_outward_link(@, link)]
        n3 == EnsureNode(n2, link.target)
    IN  [n3 EXCEPT ![NodeIndex(n3, link.target)] = add_inward_link(@, link)]

RECURSIVE WithoutNode(_, _)
\* del self.nodes[concept]
WithoutNode(net, concept) ==
    IF net = <<>> THEN <<>>
    ELSE (IF Head(net).concept = concept THEN <<>> ELSE <<Head(net)>>)
             \o WithoutNode(Tail(net), concept)

\* DiagramNetwork.remove_node
remove_node(net, concept) ==
    WithoutNode([i \in 1 .. Len(net) |-> remove_links_to(net[i], concept)],
                concept)

\* to_remove with "and" for "or": only the nodes without any link
SourcesAndSinks_both(net) ==
    {net[i].concept : i \in {j \in 1 .. Len(net) :
                                  is_source(net[j]) /\ is_sink(net[j])}}

\* to_remove of remove_sources_and_sinks
SourcesAndSinks(net) ==
    {net[i].concept : i \in {j \in 1 .. Len(net) :
                                  is_source(net[j]) \/ is_sink(net[j])}}

RECURSIVE RemoveAll(_, _)
\* "for concept in to_remove": the links to and from concept, then its node
RemoveAll(net, to_remove) ==
    IF to_remove = {} THEN net
    ELSE LET concept == CHOOSE c \in to_remove : TRUE
         IN  RemoveAll(remove_node(net, concept), to_remove \ {concept})

\* DiagramNetwork.remove_sources_and_sinks: the node table afterwards
remove_sources_and_sinks(net) == RemoveAll(net, SourcesAndSinks(net))

\* DiagramNetwork.remove_sources_and_sinks: the value returned
remove_sources_and_sinks_result(net) == Cardinality(SourcesAndSinks(net))

\* one pass of remove_sources_and_sinks instead of the loop over it
Prune_once(net) == remove_sources_and_sinks(net)

RECURSIVE PrunePasses(_)
\* while self.remove_sources_and_sinks() > 0: pass, as the number of calls of
\* remove_sources_and_sinks it makes
PrunePasses(net) ==
    IF remove_sources_and_sinks_result(net) > 0
    THEN 1 + PrunePasses(remove_sources_and_sinks(net))
    ELSE 1

\* two passes of remove_sources_and_sinks instead of the loop over it
Prune_two_passes(net) ==
    remove_sources_and_sinks(remove_sources_and_sinks(net))

RECURSIVE Prune(_)
\* while self.remove_sources_and_sinks() > 0: pass
Prune(net) ==
    IF remove_sources_and_sinks_result(net) > 0
    THEN Prune(remove_sources_and_sinks(net))
    ELSE net

RECURSIVE get_loops_recursive(_, _, _, _, _)
\* DiagramNetwork._get_loops_recursive from the k-th outward link of node on:
\* the store afterwards
get_loops_recursive(net, node, k, sequence, ls) ==
    IF k > Len(node.outward_links) THEN ls
    ELSE LET link == node.outward_links[k]
             next_sequence == add_link(CopySequence(sequence, ls.next_id), link)
             ls1 == [ls EXCEPT !.next_id = @ + 1]
             ls2 == IF next_sequence.is_loop THEN add_loop(ls1, next_sequence).ls
                    ELSE IF next_sequence.is_closed THEN ls1
                    ELSE IF HasNode(net, link.target)
                    THEN get_loops_recursive(net,
                                             net[NodeIndex(net, link.target)],
                                             1, next_sequence, ls1)
                    ELSE ls1
         IN  get_loops_recursive(net, node, k + 1, sequence, ls2)

RECURSIVE DfsCalls_parent_test(_, _, _, _)
\* the calls when the dead-end test reads sequence.is_closed, the sequence
\* handed in, instead of next_sequence.is_closed
DfsCalls_parent_test(net, node, k, sequence) ==
    IF k > Len(node.outward_links) THEN {}
    ELSE LET link == node.outward_links[k]
             copy == CopySequence(sequence, 0)
             next_sequence == add_link(copy, link)
         IN  {[before |-> copy, link |-> link, after |-> next_sequence,
               ret |-> add_link_result(copy)]}
             \cup (IF next_sequence.is_loop \/ sequence.is_closed
                      \/ ~HasNode(net, link.target)
                   THEN {}
                   ELSE DfsCalls_parent_test(net,
                                             net[NodeIndex(net, link.target)],
                                             1, next_sequence))
             \cup DfsCalls_parent_test(net, node, k + 1, sequence)

RECURSIVE DfsCalls(_, _, _, _)
\* DiagramNetwork._get_loops_recursive from the k-th outward link of node on:
\* the add_link calls it makes, each with the copy it is made on, the link,
\* the sequence afterwards and the value returned
DfsCalls(net, node, k, sequence) ==
    IF k > Len(node.outward_links) THEN {}
    ELSE LET link == node.outward_links[k]
             copy == CopySequence(sequence, 0)
             next_sequence == add_link(copy, link)
         IN  {[before |-> copy, link |-> link, after |-> next_sequence,
               ret |-> add_link_result(copy)]}
             \cup (IF next_sequence.is_loop \/ next_sequence.is_closed
                      \/ ~HasNode(net, link.target)
                   THEN {}
                   ELSE DfsCalls(net, net[NodeIndex(net, link.target)],
                                 1, next_sequence))
             \cup DfsCalls(net, node, k + 1, sequence)

\* the add_link calls of one iteration of "for node in all_nodes"
RootCalls(net, concept) ==
    IF HasNode(net, concept)
       /\ ~is_sink(net[NodeIndex(net, concept)])
       /\ ~is_source(net[NodeIndex(net, concept)])
    THEN DfsCalls(net, net[NodeIndex(net, concept)], 1, NewSequence(0))
    ELSE {}

\* the iteration with the node removed before the search from it, which then
\* runs on the network that is left
RootIteration_removed_first(net, ls, concept) ==
    IF HasNode(net, concept)
       /\ ~is_sink(net[NodeIndex(net, concept)])
       /\ ~is_source(net[NodeIndex(net, concept)])
    THEN [nodes |-> Prune(remove_node(net, concept)),
          ls |-> get_loops_recursive(Prune(remove_node(net, concept)),
                                     net[NodeIndex(net, concept)], 1,
                                     NewSequence(ls.next_id),
                                     [ls EXCEPT !.next_id = @ + 1])]
    ELSE [nodes |-> net, ls |-> ls]

\* the iteration with the pruning after the search, but not remove_node
RootIteration_pruned_only(net, ls, concept) ==
    IF HasNode(net, concept)
       /\ ~is_sink(net[NodeIndex(net, concept)])
       /\ ~is_source(net[NodeIndex(net, concept)])
    THEN [nodes |-> Prune(net),
          ls |-> get_loops_recursive(net, net[NodeIndex(net, concept)], 1,
                                     NewSequence(ls.next_id),
                                     [ls EXCEPT !.next_id = @ + 1])]
    ELSE [nodes |-> net, ls |-> ls]

\* the iteration without remove_node and the pruning after the search
RootIteration_node_kept(net, ls, concept) ==
    IF HasNode(net, concept)
       /\ ~is_sink(net[NodeIndex(net, concept)])
       /\ ~is_source(net[NodeIndex(net, concept)])
    THEN [nodes |-> net,
          ls |-> get_loops_recursive(net, net[NodeIndex(net, concept)], 1,
                                     NewSequence(ls.next_id),
                                     [ls EXCEPT !.next_id = @ + 1])]
    ELSE [nodes |-> net, ls |-> ls]

\* one iteration of "for node in all_nodes" in get_loops: the node table and
\* the store afterwards
RootIteration(net, ls, concept) ==
    IF HasNode(net, concept)
       /\ ~is_sink(net[NodeIndex(net, concept)])
       /\ ~is_source(net[NodeIndex(net, concept)])
    THEN [nodes |-> Prune(remove_node(net, concept)),
          ls |-> get_loops_recursive(net, net[NodeIndex(net, concept)], 1,
                                     NewSequence(ls.next_id),
                                     [ls EXCEPT !.next_id = @ + 1])]
    ELSE [nodes |-> net, ls |-> ls]

RECURSIVE RootIterations(_, _, _, _)
RootIterations(net, ls, snapshot, i) ==
    IF i > Len(snapshot) THEN [nodes |-> net, ls |-> ls]
    ELSE LET one == RootIteration(net, ls, snapshot[i])
         IN  RootIterations(one.nodes, one.ls, snapshot, i + 1)

\* all_nodes = list(self.nodes.values()), as the concepts of the nodes
Snapshot(net) == [i \in 1 .. Len(net) |-> net[i].concept]

\* DiagramNetwork.get_loops as a whole: the node table afterwards and the
\* LoopSet returned
get_loops(net, counter) ==
    LET pruned == Prune(net)
        run == RootIterations(pruned, NewLoopSet(counter), Snapshot(pruned), 1)
    IN  [nodes |-> run.nodes, ls |-> finalize(run.ls)]

RECURSIVE AddLinks(_, _)
\* "for link in self.all_links: self.network.add_link(link)" for one
\* iteration order of the set
AddLinks(net, links) ==
    IF links = <<>> THEN net
    ELSE AddLinks(network_add_link(net, Head(links)), Tail(links))

----------------------------------------------------------------------------
(* models.py: the Concept registry.  A Concept is the record [name, id];   *)
(* Concept._instances is the sequence of its values in insertion order.    *)

\* name in cls._instances
Registered(reg, name) == \E i \in 1 .. Len(reg) : reg[i].name = name

\* position of cls._instances[name]
RegIndex(reg, name) == CHOOSE i \in 1 .. Len(reg) : reg[i].name = name

\* get_concept without the test "name not in cls._instances"
get_concept_always(reg, counter, name) ==
    LET made == [name |-> name, id |-> counter]
    IN  [instances |-> IF Registered(reg, name)
                       THEN [reg EXCEPT ![RegIndex(reg, name)] = made]
                       ELSE Append(reg, made),
         next_id |-> counter + 1,
         ret |-> made]

\* Concept.get_concept: the registry and Concept._next_id afterwards, and the
\* Concept returned
get_concept(reg, counter, name) ==
    IF Registered(reg, name)
    THEN [instances |-> reg, next_id |-> counter,
          ret |-> reg[RegIndex(reg, name)]]
    ELSE [instances |-> Append(reg, [name |-> name, id |-> counter]),
          next_id |-> counter + 1,
          ret |-> [name |-> name, id |-> counter]]

\* Influence.from_polarity for a polarity other than 0
from_polarity(polarity) == IF polarity > 0 THEN INCREASES ELSE DECREASES

----------------------------------------------------------------------------
(* matrix_loader.py.  A cell value is a record: [kind |-> "nan"] for NaN   *)
(* and None, [kind |-> "num", num, den] for an int or a float num/den,     *)
(* [kind |-> "str", text] for a string as its code points, and             *)
(* [kind |-> "other"] for a value of any other type.                       *)

\* the characters str.strip() and int() take for whitespace, of those below
\* 128: tab, newline, vertical tab, form feed, carriage return, the
\* separators 28 .. 31 and the space
Whitespace == {9, 10, 11, 12, 13, 28, 29, 30, 31, 32}

RECURSIVE StripLeft(_)
StripLeft(text) ==
    IF text # <<>> /\ Head(text) \in Whitespace THEN StripLeft(Tail(text))
    ELSE text

RECURSIVE StripRight(_)
StripRight(text) ==
    IF text # <<>> /\ text[Len(text)] \in Whitespace
    THEN StripRight(SubSeq(text, 1, Len(text) - 1))
    ELSE text

\* str.strip()
strip(text) == StripRight(StripLeft(text))

RECURSIVE Remove(_, _)
\* str.replace(char, "")
Remove(text, char) ==
    IF text = <<>> THEN <<>>
    ELSE (IF Head(text) = char THEN <<>> ELSE <<Head(text)>>)
             \o Remove(Tail(text), char)

RECURSIVE DigitsValue(_)
\* the number a string of digits 0 .. 9 writes
DigitsValue(text) ==
    IF text = <<>> THEN 0
    ELSE 10 * DigitsValue(SubSeq(text, 1, Len(text) - 1))
             + (text[Len(text)] - 48)

\* int(text) of a string: whitespace around it is dropped, then it is an
\* optional sign and one digit or more; anything else raises ValueError
int_of_str(text) ==
    LET body == strip(text)
        signed == body # <<>> /\ Head(body) \in {43, 45}
        digits == IF signed THEN Tail(body) ELSE body
    IN  IF digits # <<>> /\ \A i \in 1 .. Len(digits) : digits[i] \in 48 .. 57
        THEN [ok |-> TRUE,
              value |-> IF signed /\ Head(body) = 45 THEN 0 - DigitsValue(digits)
                        ELSE DigitsValue(digits)]
        ELSE [ok |-> FALSE]

\* int(value) of a number num/den: the fraction is cut off towards zero
int_of_number(value) ==
    IF value.num >= 0 THEN value.num \div value.den
    ELSE 0 - ((0 - value.num) \div value.den)

\* the end of both branches of _parse_polarity
CheckedPolarity(polarity_int, message) ==
    IF polarity_int = 0 THEN [ok |-> FALSE, error |-> "Zero value"]
    ELSE IF polarity_int \notin {1, -1} THEN [ok |-> FALSE, error |-> message]
    ELSE [ok |-> TRUE, value |-> polarity_int]

\* the string branch of _parse_polarity from "int(cleaned)" on
ParseCleaned(cleaned) ==
    LET first == int_of_str(cleaned)
        second == int_of_str(Remove(cleaned, 43))
    IN  IF first.ok
        THEN CheckedPolarity(first.value, "Parsed value is not +1 or -1")
        ELSE IF second.ok
        THEN CheckedPolarity(second.value, "Parsed value is not +1 or -1")
        ELSE [ok |-> FALSE, error |-> "Cannot parse as integer"]

\* _parse_polarity: the polarity returned, or the message of the ValueError
parse_polarity(value) ==
    IF value.kind = "nan" THEN [ok |-> FALSE, error |-> "NaN or None value"]
    ELSE IF value.kind = "num"
    THEN CheckedPolarity(int_of_number(value), "Numeric value is not +1 or -1")
    ELSE IF value.kind = "str"
    THEN LET cleaned == strip(Remove(value.text, 32))
         IN  IF cleaned = <<>> \/ cleaned = <<48>>
             THEN [ok |-> FALSE, error |-> "Empty or zero value"]
             ELSE ParseCleaned(cleaned)
    ELSE [ok |-> FALSE, error |-> "Unsupported type"]

\* the messages the loaders skip without a warning
SilentErrors == {"NaN or None value", "Empty or zero value", "Zero value"}

\* what the loop body of the loaders does with a parsed cell: a link, a
\* silent skip, or a warning and a skip
CellOutcome(parsed) ==
    IF parsed.ok THEN "link"
    ELSE IF parsed.error \in SilentErrors THEN "silent"
    ELSE "warning"

----------------------------------------------------------------------------
(* Inputs *)

\* The concepts A, B, C, D by their ids.
Concepts == {0, 1, 2, 3}

\* The cells of the input matrices: the links between A, B, C and D of
\* simple_example.py (A+>B, B+>C, C+>A, B+>D, D->A, D->B) and the reverse
\* links B->A and A->D.  One link per ordered pair.
InputLinks ==
    {Link(0, INCREASES, 1), Link(1, INCREASES, 2), Link(2, INCREASES, 0),
     Link(1, INCREASES, 3), Link(3, DECREASES, 0), Link(3, DECREASES, 1),
     Link(1, DECREASES, 0), Link(0, DECREASES, 3)}

\* The concepts E and F by their ids.
ChainConcepts == {4, 5}

\* The links of the networks that are pruned: the example's links, the chain
\* E+>F, D+>E, and F+>F on the diagonal of the matrix.
ChainLinks ==
    {Link(0, INCREASES, 1), Link(1, INCREASES, 2), Link(2, INCREASES, 0),
     Link(1, INCREASES, 3), Link(3, DECREASES, 0), Link(4, INCREASES, 5),
     Link(3, INCREASES, 4), Link(5, INCREASES, 5)}

\* The links of the loops handed to add_loop directly, and of the Sequence
\* objects built link by link: the example's links, A->D, and D+>A besides
\* D->A.
LoopLinks ==
    {Link(0, INCREASES, 1), Link(1, INCREASES, 2), Link(2, INCREASES, 0),
     Link(1, INCREASES, 3), Link(3, DECREASES, 0), Link(3, INCREASES, 0),
     Link(0, DECREASES, 3)}

RECURSIVE SimplePaths(_, _)
\* The sequences of k links from links in which each link starts where the
\* one before it ends and no source occurs twice.
SimplePaths(links, k) ==
    IF k = 1 THEN {<<l>> : l \in links}
    ELSE UNION {{Append(p, l) :
                    l \in {x \in links :
                              /\ x.source = p[k - 1].target
                              /\ \A i \in 1 .. (k - 1) : p[i].source # x.source}}
                : p \in SimplePaths(links, k - 1)}

\* The sequences of links from links that are simple cycles, in every rotation:
\* each link ends where the next starts, the last ends where the first
\* starts, and no source occurs twice.
LinkCycles(links) ==
    UNION {{c \in SimplePaths(links, k) : c[k].target = c[1].source}
           : k \in 1 .. Cardinality({l.source : l \in links})}

LoopArgs == LinkCycles(LoopLinks)

Symbols == 0 .. (NumSymbols - 1)

\* The characters of the strings in the cells: space, tab, '+', '-', '0',
\* '1' and 'x'.
CellChars == {32, 9, 43, 45, 48, 49, 120}

\* The values a cell of the matrix can hold: nothing (NaN), a number, a
\* string, a value of another type.
CellValues ==
    {[kind |-> "nan"], [kind |-> "other"]}
    \cup {[kind |-> "num", num |-> k, den |-> 2] :
              k \in (0 - MaxCellHalves) .. MaxCellHalves}
    \cup {[kind |-> "str", text |-> t] :
              t \in UNION {[1 .. n -> CellChars] : n \in 0 .. MaxCellLen}}

\* The row labels (sources) and the column labels (targets) of the matrix.
MatrixIndex == <<"A", "B">>
MatrixColumns == <<"A", "B">>

\* The names asked of the Concept registry.
ConceptNames == {"A", "B", "C", "D"}

IdSeqsUpTo(n) == UNION {[1 .. k -> Symbols] : k \in 0 .. n}

IdSeqs == IdSeqsUpTo(MaxLen)

TriSeqs == IdSeqsUpTo(MaxTriLen)

----------------------------------------------------------------------------
(* The objects before anything is done with them *)

LevIdle == lev_a = <<>> /\ lev_b = <<>> /\ lev_c = <<>> /\ lev_out = <<>>

SeqIdle == seq = NewSequence(0)

NetIdle == nodes = <<>> /\ all_links = {} /\ all_nodes = <<>> /\ root_idx = 0

SetIdle ==
    /\ objs = <<>> /\ loops = {} /\ loops_list = <<>> /\ distances = <<>>
    /\ next_id = 0
    /\ scores = None

LoadIdle ==
    concept_next_id = 0 /\ instances = <<>> /\ cell_idx = 0 /\ loaders = <<>>

NoCall == [op |-> "none"]

\* the LoopSet and Sequence._id_counter as one store
Store ==
    [objs |-> objs, loops |-> loops, loops_list |-> loops_list,
     distances |-> distances, next_id |-> next_id]

SetStore(ls) ==
    /\ objs' = ls.objs
    /\ loops' = ls.loops
    /\ loops_list' = ls.loops_list
    /\ distances' = ls.distances
    /\ next_id' = ls.next_id

----------------------------------------------------------------------------
(* The edit-distance functions applied to pairs of bounded sequences *)

InitLev ==
    /\ pc = "lev"
    /\ lev_a \in IdSeqs
    /\ lev_b \in IdSeqs
    /\ lev_c = <<>>
    /\ lev_out = <<>>
    /\ SeqIdle /\ NetIdle /\ SetIdle /\ LoadIdle /\ call = NoCall

\* the calls f(a, b) and f(b, a) of levenshtein_distance_with_rotation
LevCalls ==
    /\ pc = "lev"
    /\ pc' = "lev_done"
    /\ lev_out' = [ab |-> levenshtein_distance_with_rotation(lev_a, lev_b),
                   ba |-> levenshtein_distance_with_rotation(lev_b, lev_a)]
    /\ UNCHANGED <<loadVars, lev_a, lev_b, lev_c, seq, netVars, setVars, scores, call>>

NextLev == LevCalls

SpecLev == InitLev /\ [][NextLev]_vars

----------------------------------------------------------------------------
(* The rotation distance applied to triples of bounded sequences *)

InitTri ==
    /\ pc = "tri"
    /\ lev_a \in TriSeqs
    /\ lev_b \in TriSeqs
    /\ lev_c \in TriSeqs
    /\ lev_out = <<>>
    /\ SeqIdle /\ NetIdle /\ SetIdle /\ LoadIdle /\ call = NoCall

\* the calls f(a, b), f(b, c) and f(a, c)
TriCalls ==
    /\ pc = "tri"
    /\ pc' = "tri_done"
    /\ lev_out' = [ab |-> levenshtein_distance_with_rotation(lev_a, lev_b),
                   bc |-> levenshtein_distance_with_rotation(lev_b, lev_c),
                   ac |-> levenshtein_distance_with_rotation(lev_a, lev_c)]
    /\ UNCHANGED <<loadVars, lev_a, lev_b, lev_c, seq, netVars, setVars, scores, call>>

NextTri == TriCalls

SpecTri == InitTri /\ [][NextTri]_vars

----------------------------------------------------------------------------
(* A LoopSet that is filled by add_loop, finalized and asked for distances *)

InitLoopSet ==
    /\ pc = "adding"
    /\ LevIdle /\ SeqIdle /\ NetIdle /\ SetIdle /\ LoadIdle /\ call = NoCall

\* loop_set.add_loop(Sequence(links=arg)), before or after finalize()
AddLoop(arg) ==
    /\ pc \in {"adding", "finalized"}
    /\ next_id < 2 * MaxAdds
    /\ LET res == add_loop([Store EXCEPT !.next_id = @ + 1],
                           SequenceOfLinks(arg, next_id))
       IN  /\ SetStore(res.ls)
           /\ call' = [op |-> "add_loop", arg |-> arg, ret |-> res.ret]
    /\ UNCHANGED <<loadVars, pc, levVars, seq, netVars, scores>>

\* loop_set.finalize()
Finalize ==
    /\ pc = "adding"
    /\ pc' = "finalized"
    /\ SetStore(finalize(Store))
    /\ call' = [op |-> "finalize"]
    /\ UNCHANGED <<loadVars, levVars, seq, netVars, scores>>

\* loop_set.get_distance(x, y) for two loops of loops_list
GetDistance(i, j) ==
    /\ pc = "finalized"
    /\ i \in 1 .. Len(loops_list)
    /\ j \in 1 .. Len(loops_list)
    /\ LET got == get_distance_call(Store, loops_list[i], loops_list[j])
       IN  /\ SetStore(got.ls)
           /\ call' = [op |-> "get_distance", a |-> loops_list[i],
                       b |-> loops_list[j], ret |-> got.ret]
    /\ UNCHANGED <<loadVars, pc, levVars, seq, netVars, scores>>

NextLoopSet ==
    \/ \E arg \in LoopArgs : AddLoop(arg)
    \/ Finalize
    \/ \E i, j \in 1 .. MaxAdds : GetDistance(i, j)

SpecLoopSet == InitLoopSet /\ [][NextLoopSet]_vars

\* the edit-distance calls and the LoopSet, side by side
SpecDist == (InitLev \/ InitLoopSet) /\ [][NextLev \/ NextLoopSet]_vars

----------------------------------------------------------------------------
(* A Sequence that is built link by link, rotated and printed *)

InitSeq ==
    /\ pc = "seq"
    /\ LevIdle /\ SeqIdle /\ NetIdle /\ SetIdle /\ LoadIdle /\ call = NoCall

\* seq.add_link(link)
SeqAddLink(link) ==
    /\ pc = "seq"
    /\ seq.is_closed \/ Len(seq.links) < MaxSeqLen
    /\ seq' = add_link(seq, link)
    /\ call' = [op |-> "add_link", link |-> link, ret |-> add_link_result(seq)]
    /\ UNCHANGED <<loadVars, pc, levVars, netVars, setVars, scores>>

\* seq.rotate()
SeqRotate ==
    /\ pc = "seq"
    /\ seq' = rotate(seq)
    /\ call' = [op |-> "rotate"]
    /\ UNCHANGED <<loadVars, pc, levVars, netVars, setVars, scores>>

\* seq.rotate_to_concept(concept)
SeqRotateToConcept(concept) ==
    /\ pc = "seq"
    /\ seq' = rotate_to_concept(seq, concept)
    /\ call' = [op |-> "rotate_to_concept", concept |-> concept]
    /\ UNCHANGED <<loadVars, pc, levVars, netVars, setVars, scores>>

\* seq.rotate_to_standard()
SeqRotateToStandard ==
    /\ pc = "seq"
    /\ seq' = rotate_to_standard(seq)
    /\ call' = [op |-> "rotate_to_standard"]
    /\ UNCHANGED <<loadVars, pc, levVars, netVars, setVars, scores>>

\* str(seq)
SeqStr ==
    /\ pc = "seq"
    /\ seq' = CacheStr(seq)
    /\ call' = [op |-> "str", ret |-> Str(seq)]
    /\ UNCHANGED <<loadVars, pc, levVars, netVars, setVars, scores>>

\* seq.get_sequence_as_ints()
SeqGetInts ==
    /\ pc = "seq"
    /\ seq' = CacheInts(seq)
    /\ call' = [op |-> "get_sequence_as_ints", ret |-> get_sequence_as_ints(seq)]
    /\ UNCHANGED <<loadVars, pc, levVars, netVars, setVars, scores>>

NextSeq ==
    \/ \E link \in LoopLinks : SeqAddLink(link)
    \/ SeqRotate
    \/ \E concept \in Concepts : SeqRotateToConcept(concept)
    \/ SeqRotateToStandard
    \/ SeqStr
    \/ SeqGetInts

SpecSeq == InitSeq /\ [][NextSeq]_vars

----------------------------------------------------------------------------
(* A DiagramNetwork that is built link by link and then searched           *)

Init ==
    /\ pc = "build"
    /\ LevIdle /\ SeqIdle /\ NetIdle /\ SetIdle /\ LoadIdle /\ call = NoCall

\* DiagramNetwork.add_link(link)
AddLink(link) ==
    /\ pc = "build"
    /\ link \in all_links \/ Cardinality(all_links) < MaxLinks
    /\ nodes' = network_add_link(nodes, link)
    /\ all_links' = all_links \cup {link}
    /\ call' = [op |-> "add_link", link |-> link]
    /\ UNCHANGED <<loadVars, pc, levVars, seq, all_nodes, root_idx, setVars, scores>>

\* get_loops up to its loop over the nodes: the pruning, LoopSet(), all_nodes
StartGetLoops ==
    /\ pc = "build"
    /\ pc' = "roots"
    /\ nodes' = Prune(nodes)
    /\ all_nodes' = Snapshot(nodes')
    /\ root_idx' = 1
    /\ SetStore(NewLoopSet(next_id))
    /\ call' = [op |-> "get_loops"]
    /\ UNCHANGED <<loadVars, levVars, seq, all_links, scores>>

\* one iteration of "for node in all_nodes"
RootStep ==
    /\ pc = "roots"
    /\ root_idx <= Len(all_nodes)
    /\ LET one == RootIteration(nodes, Store, all_nodes[root_idx])
       IN  /\ nodes' = one.nodes
           /\ SetStore(one.ls)
    /\ root_idx' = root_idx + 1
    /\ UNCHANGED <<loadVars, pc, levVars, seq, all_links, all_nodes, scores, call>>

\* the end of get_loops: loop_set.finalize() and the return
FinishGetLoops ==
    /\ pc = "roots"
    /\ root_idx > Len(all_nodes)
    /\ pc' = "done"
    /\ SetStore(finalize(Store))
    /\ UNCHANGED <<loadVars, levVars, seq, netVars, scores, call>>

\* loop_set.get_concepts_and_scores()
GetScores ==
    /\ pc = "done"
    /\ pc' = "scored"
    /\ LET res == get_concepts_and_scores(Store)
       IN  /\ SetStore(res.ls)
           /\ scores' = Some(res.scores)
    /\ call' = [op |-> "get_concepts_and_scores"]
    /\ UNCHANGED <<loadVars, levVars, seq, netVars>>

Next ==
    \/ \E link \in InputLinks : AddLink(link)
    \/ StartGetLoops
    \/ RootStep
    \/ FinishGetLoops
    \/ GetScores

Spec == Init /\ [][Next]_vars

\* the same network operations over the links of ChainLinks
NextChain ==
    \/ \E link \in ChainLinks : AddLink(link)
    \/ StartGetLoops
    \/ RootStep
    \/ FinishGetLoops
    \/ GetScores

SpecChain == Init /\ [][NextChain]_vars

\* add_link called directly, with links that can name an ordered pair twice
\* (D->A and D+>A)
NextDup == \E link \in LoopLinks : AddLink(link)

SpecDup == Init /\ [][NextDup]_vars

----------------------------------------------------------------------------
(* A matrix that is read cell by cell, after Concept.reset() *)

InitLoad ==
    /\ pc = "load"
    /\ LevIdle /\ SeqIdle /\ NetIdle /\ SetIdle /\ LoadIdle /\ call = NoCall

\* one iteration of "for source_name in df.index: for target_name in
\* df.columns" of the loaders, for a cell that holds value
LoadCell(value) ==
    /\ pc = "load"
    /\ cell_idx < Len(MatrixIndex) * Len(MatrixColumns)
    /\ LET source_name == MatrixIndex[(cell_idx \div Len(MatrixColumns)) + 1]
           target_name == MatrixColumns[(cell_idx % Len(MatrixColumns)) + 1]
           parsed == parse_polarity(value)
           source == get_concept(instances, concept_next_id, source_name)
           target == get_concept(source.instances, source.next_id, target_name)
       IN  IF parsed.ok
           THEN /\ instances' = target.instances
                /\ concept_next_id' = target.next_id
                /\ all_links' = all_links \cup
                       {Link(source.ret.id, from_polarity(parsed.value),
                             target.ret.id)}
                /\ call' = [op |-> "cell", value |-> value, outcome |-> "link",
                            link |-> Link(source.ret.id,
                                          from_polarity(parsed.value),
                                          target.ret.id)]
           ELSE /\ call' = [op |-> "cell", value |-> value,
                            outcome |-> CellOutcome(parsed)]
                /\ UNCHANGED <<instances, concept_next_id, all_links>>
    /\ cell_idx' = cell_idx + 1
    /\ UNCHANGED <<pc, levVars, seq, nodes, all_nodes, root_idx, setVars, scores,
                   loaders>>

NextLoad == \E value \in CellValues : LoadCell(value)

SpecLoad == InitLoad /\ [][NextLoad]_vars

----------------------------------------------------------------------------
(* The Concept registry asked for names, after Concept.reset() *)

InitConcept ==
    /\ pc = "concepts"
    /\ LevIdle /\ SeqIdle /\ NetIdle /\ SetIdle /\ LoadIdle /\ call = NoCall

\* Concept.get_concept(name)
GetConcept(name) ==
    /\ pc = "concepts"
    /\ LET got == get_concept(instances, concept_next_id, name)
       IN  /\ instances' = got.instances
           /\ concept_next_id' = got.next_id
           /\ call' = [op |-> "get_concept", name |-> name, ret |-> got.ret]
    /\ UNCHANGED <<pc, levVars, seq, netVars, setVars, scores, cell_idx, loaders>>

\* Concept.reset()
ResetConcepts ==
    /\ pc = "concepts"
    /\ concept_next_id' = 0
    /\ instances' = <<>>
    /\ call' = [op |-> "reset"]
    /\ UNCHANGED <<pc, levVars, seq, netVars, setVars, scores, cell_idx, loaders>>

NextConcept ==
    \/ \E name \in ConceptNames : GetConcept(name)
    \/ ResetConcepts

SpecConcept == InitConcept /\ [][NextConcept]_vars

----------------------------------------------------------------------------
(* A DiagramNetwork whose add_link, remove_node and                         *)
(* remove_sources_and_sinks are called in any order                         *)

\* The links handed to add_link: the cycle A+>B, B+>C, C+>A, B+>D, D->A,
\* D+>A for the pair of D->A, and C+>C on the diagonal.
NetLinks ==
    {Link(0, INCREASES, 1), Link(1, INCREASES, 2), Link(2, INCREASES, 0),
     Link(1, INCREASES, 3), Link(3, DECREASES, 0), Link(3, INCREASES, 0),
     Link(2, INCREASES, 2)}

InitNet ==
    /\ pc = "net"
    /\ LevIdle /\ SeqIdle /\ NetIdle /\ SetIdle /\ LoadIdle /\ call = NoCall

\* network.add_link(link)
NetAddLink(link) ==
    /\ pc = "net"
    /\ link \in all_links \/ Cardinality(all_links) < MaxLinks
    /\ nodes' = network_add_link(nodes, link)
    /\ all_links' = all_links \cup {link}
    /\ call' = [op |-> "add_link", link |-> link]
    /\ UNCHANGED <<loadVars, pc, levVars, seq, all_nodes, root_idx, setVars, scores>>

\* network.remove_node(concept)
NetRemoveNode(concept) ==
    /\ pc = "net"
    /\ nodes' = remove_node(nodes, concept)
    /\ call' = [op |-> "remove_node", concept |-> concept]
    /\ UNCHANGED <<loadVars, pc, levVars, seq, all_links, all_nodes, root_idx,
                   setVars, scores>>

\* network.remove_sources_and_sinks()
NetRemoveSourcesAndSinks ==
    /\ pc = "net"
    /\ nodes' = remove_sources_and_sinks(nodes)
    /\ call' = [op |-> "remove_sources_and_sinks",
                ret |-> remove_sources_and_sinks_result(nodes)]
    /\ UNCHANGED <<loadVars, pc, levVars, seq, all_links, all_nodes, root_idx,
                   setVars, scores>>

NextNet ==
    \/ \E link \in NetLinks : NetAddLink(link)
    \/ \E concept \in Concepts : NetRemoveNode(concept)
    \/ NetRemoveSourcesAndSinks

SpecNet == InitNet /\ [][NextNet]_vars

----------------------------------------------------------------------------
(* loader.py: LoopSetLoader objects that load matrices and report.  A       *)
(* matrix is its names, which label the rows and the columns, and its cells *)
(* row by row as the numbers pandas read: 1, -1, or 0 for no connection.    *)
(* A loader is the record [all_links, network, loop_set, scores] of its     *)
(* attributes, and filepath, the argument of its last load that returned.   *)

MaxSequenceIds == 12

\* A+>B, A->C, B+>A, C+>A
MatrixX == [names |-> <<"A", "B", "C">>,
            cells |-> <<0, 1, -1,   1, 0, 0,   1, 0, 0>>]

\* P+>Q, Q->P, Q+>R, R+>P
MatrixY == [names |-> <<"P", "Q", "R">>,
            cells |-> <<0, 1, 0,   -1, 0, 1,   1, 0, 0>>]

\* B+>A, A+>B
MatrixZ == [names |-> <<"B", "A">>,
            cells |-> <<0, 1,   1, 0>>]

Matrices == {MatrixX, MatrixY, MatrixZ}

Loaders == {1, 2}

\* LoopSetLoader()
NewLoader ==
    [all_links |-> None, network |-> None, loop_set |-> None, scores |-> None,
     filepath |-> None]

RECURSIVE load_adjacency_matrix(_, _, _, _, _)
\* the loop over the cells of load_adjacency_matrix_from_excel / _from_csv,
\* from the i-th cell on: the registry, Concept._next_id and the links
load_adjacency_matrix(matrix, i, reg, counter, links) ==
    IF i > Len(matrix.cells)
    THEN [instances |-> reg, next_id |-> counter, links |-> links]
    ELSE LET n == Len(matrix.names)
             source_name == matrix.names[((i - 1) \div n) + 1]
             target_name == matrix.names[((i - 1) % n) + 1]
             polarity_int == matrix.cells[i]
             source == get_concept(reg, counter, source_name)
             target == get_concept(source.instances, source.next_id, target_name)
         IN  IF polarity_int \in {1, -1}
             THEN load_adjacency_matrix(
                      matrix, i + 1, target.instances, target.next_id,
                      links \cup {Link(source.ret.id, from_polarity(polarity_int),
                                       target.ret.id)})
             ELSE load_adjacency_matrix(matrix, i + 1, reg, counter, links)

\* the orders in which "for link in self.all_links" can take a set
IterationOrders(links) ==
    {order \in [1 .. Cardinality(links) -> links] :
        \A i, j \in 1 .. Cardinality(links) : order[i] = order[j] => i = j}

\* LoopSetLoader.get_scores on the loader me: the loader afterwards, the
\* value returned (None when it raises) and Sequence._id_counter
loader_get_scores(me, counter) ==
    IF me.scores = None
    THEN IF me.loop_set = None
         THEN [me |-> me, ret |-> None, next_id |-> counter]
         ELSE LET res == get_concepts_and_scores(
                             [me.loop_set[1] EXCEPT !.next_id = counter])
              IN  [me |-> [me EXCEPT !.scores = Some(res.scores),
                                     !.loop_set = Some(res.ls)],
                   ret |-> Some(res.scores),
                   next_id |-> res.ls.next_id]
    ELSE [me |-> me, ret |-> me.scores, next_id |-> counter]

\* self.scores.get(concept, 0.0)
scores_get(table, concept) ==
    IF concept \in DOMAIN table THEN table[concept] ELSE FracOfInt(0)

\* the rows write_concept_node_file writes after the header: one for each
\* concept of Concept.get_all()
concept_node_rows(me, reg) ==
    [i \in 1 .. Len(reg) |->
        [id |-> reg[i].name,
         numberOfLoops |-> loops_containing_concept(me.loop_set[1], reg[i].id),
         relevanceScore |-> scores_get(me.scores[1], reg[i].id)]]

InitLoaders ==
    /\ pc = "loaders"
    /\ LevIdle /\ SeqIdle /\ NetIdle /\ SetIdle /\ call = NoCall
    /\ concept_next_id = 0 /\ instances = <<>> /\ cell_idx = 0
    /\ loaders = [k \in Loaders |-> NewLoader]

\* loader k: load_from_adjacency_matrix(filepath) for a file that holds matrix
LoaderLoad(k, matrix) ==
    /\ pc = "loaders"
    /\ next_id < MaxSequenceIds
    /\ LET read == load_adjacency_matrix(matrix, 1, <<>>, 0, {})
       IN  /\ instances' = read.instances
           /\ concept_next_id' = read.next_id
           /\ \E order \in IterationOrders(read.links) :
                  LET got == get_loops(AddLinks(<<>>, order), next_id)
                  IN  /\ loaders' = [loaders EXCEPT ![k] =
                             [@ EXCEPT !.all_links = Some(read.links),
                                       !.network = Some(got.nodes),
                                       !.loop_set = Some(got.ls),
                                       !.filepath = Some(matrix)]]
                      /\ next_id' = got.ls.next_id
    /\ call' = [op |-> "load", loader |-> k, matrix |-> matrix]
    /\ UNCHANGED <<pc, levVars, seq, netVars, objs, loops, loops_list,
                   distances, scores, cell_idx>>

\* loader k: load_from_adjacency_matrix(filepath) for a path that ends in
\* neither .xlsx, .xls nor .csv: Concept.reset(), then ValueError
LoaderLoadRaises(k) ==
    /\ pc = "loaders"
    /\ instances' = <<>>
    /\ concept_next_id' = 0
    /\ call' = [op |-> "load", loader |-> k, raised |-> TRUE]
    /\ UNCHANGED <<pc, levVars, seq, netVars, setVars, scores, cell_idx, loaders>>

\* loader k: get_scores()
LoaderGetScores(k) ==
    /\ pc = "loaders"
    /\ LET got == loader_get_scores(loaders[k], next_id)
       IN  /\ loaders' = [loaders EXCEPT ![k] = got.me]
           /\ next_id' = got.next_id
           /\ call' = [op |-> "get_scores", loader |-> k, ret |-> got.ret]
    /\ UNCHANGED <<pc, levVars, seq, netVars, objs, loops, loops_list,
                   distances, scores, concept_next_id, instances, cell_idx>>

\* loader k: write_concept_node_file(output_path), for a loader that has
\* loaded (get_scores raises ValueError otherwise)
LoaderWriteNodes(k) ==
    /\ pc = "loaders"
    /\ loaders[k].loop_set # None
    /\ LET got == loader_get_scores(loaders[k], next_id)
       IN  /\ loaders' = [loaders EXCEPT ![k] = got.me]
           /\ next_id' = got.next_id
           /\ call' = [op |-> "write_concept_node_file", loader |-> k,
                       rows |-> concept_node_rows(got.me, instances)]
    /\ UNCHANGED <<pc, levVars, seq, netVars, objs, loops, loops_list,
                   distances, scores, concept_next_id, instances, cell_idx>>

NextLoaders ==
    \/ \E k \in Loaders, matrix \in Matrices : LoaderLoad(k, matrix)
    \/ \E k \in Loaders : LoaderLoadRaises(k)
    \/ \E k \in Loaders : LoaderGetScores(k)
    \/ \E k \in Loaders : LoaderWriteNodes(k)

SpecLoaders == InitLoaders /\ [][NextLoaders]_vars

----------------------------------------------------------------------------
(* What the network search and the scoring are checked against *)

\* the simple cycles of links, each in the rotation that starts at its least
\* source id
CanonicalCycles(links) ==
    {c \in LinkCycles(links) : \A i \in 1 .. Len(c) : c[1].source <= c[i].source}

\* the stored loops, as link sequences
StoredLinks == {objs[r].links : r \in loops}

\* the stored loops that have concept as the source of a link
LoopsWith(concept) ==
    {r \in loops : \E i \in 1 .. Len(objs[r].links) :
                       objs[r].links[i].source = concept}

\* the sequence x rotated left by k
Rot(x, k) == [i \in 1 .. Len(x) |-> x[((i - 1 + k) % Len(x)) + 1]]

\* the least classical Levenshtein distance over every pair of rotations
RefLevCyclic(a, b) ==
    IF a = <<>> \/ b = <<>> THEN Len(a) + Len(b)
    ELSE LET all == {levenshtein_distance(Rot(a, sa), Rot(b, sb)) :
                        sa \in 0 .. (Len(a) - 1), sb \in 0 .. (Len(b) - 1)}
         IN  CHOOSE d \in all : \A e \in all : d <= e

\* lev_cyclic(a.ids(), b.ids()) / (|a| + |b|) of two stored loops
RefNormalized(x, y) ==
    Frac(RefLevCyclic(SourceIds(objs[x].links), SourceIds(objs[y].links)),
         Len(objs[x].links) + Len(objs[y].links))

\* x stands before y under the keys (-size, repr)
RefBefore(x, y) ==
    \/ Len(objs[x].links) > Len(objs[y].links)
    \/ /\ Len(objs[x].links) = Len(objs[y].links)
       /\ StrLess(create_short_representation(objs[x]),
                  create_short_representation(objs[y]))

RECURSIVE RefSorted(_)
RefSorted(refs) ==
    IF refs = {} THEN <<>>
    ELSE LET first == CHOOSE x \in refs : \A y \in refs \ {x} : RefBefore(x, y)
         IN  <<first>> \o RefSorted(refs \ {first})

RECURSIVE RefGreedy(_, _, _)
\* step 4 of the scoring: work pairs each remaining loop with its best_dist
RefGreedy(work, last_added, total) ==
    IF work = <<>> THEN total
    ELSE LET upd == [i \in 1 .. Len(work) |->
                        LET d == RefNormalized(work[i].loop, last_added)
                        IN  [loop |-> work[i].loop,
                             best |-> IF FracLess(d, work[i].best) THEN d
                                      ELSE work[i].best]]
             k == CHOOSE k \in 1 .. Len(upd) :
                      /\ \A j \in 1 .. Len(upd) : ~FracLess(upd[j].best, upd[k].best)
                      /\ \A j \in 1 .. (k - 1) : FracLess(upd[k].best, upd[j].best)
         IN  RefGreedy(RemoveAt(upd, k), upd[k].loop,
                       FracAdd(total,
                               FracMul(FracOfInt(Len(objs[upd[k].loop].links)),
                                       upd[k].best)))

\* the score of a concept that is in at least two stored loops
RefScore(concept) ==
    LET S == RefSorted(LoopsWith(concept))
        seed == S[Len(S)]
    IN  RefGreedy([i \in 1 .. (Len(S) - 1) |-> [loop |-> S[i], best |-> FracOfInt(1)]],
                  seed, FracOfInt(Len(objs[seed].links)))

\* the links A+>B, B+>C, C+>A, B+>D, D->A
ExampleLinks ==
    {Link(0, INCREASES, 1), Link(1, INCREASES, 2), Link(2, INCREASES, 0),
     Link(1, INCREASES, 3), Link(3, DECREASES, 0)}

RECURSIVE LinksInOrder(_)
\* the links of a set, ordered by source id and then target id
LinksInOrder(links) ==
    IF links = {} THEN <<>>
    ELSE LET first == CHOOSE l \in links :
                          \A k \in links : \/ l.source < k.source
                                           \/ /\ l.source = k.source
                                              /\ l.target <= k.target
         IN  <<first>> \o LinksInOrder(links \ {first})

\* what is observable of a finalized LoopSet: its loops in list order, each
\* with its links, id and representation
Listing(ls) ==
    [i \in 1 .. Len(ls.loops_list) |->
        [links |-> ls.objs[ls.loops_list[i]].links,
         id |-> ls.objs[ls.loops_list[i]].id,
         repr |-> Str(ls.objs[ls.loops_list[i]])]]

\* the analysis of the same link set with the links inserted in source/target
\* order
OrderedRun == get_loops(AddLinks(<<>>, LinksInOrder(all_links)), 0).ls

Searched == pc \in {"done", "scored"}

----------------------------------------------------------------------------
(* Claims about the network search and the scoring *)

\* C1: get_loops() returns a finalized LoopSet whose members are exactly the
\* simple directed cycles of the links added: every cycle is stored, nothing
\* else is, each is stored once, so that get_size() is the number of simple
\* cycles; the list holds every stored loop once and the ids are the
\* positions in it.
C1_ExactlySimpleCycles ==
    Searched =>
        /\ StoredLinks = CanonicalCycles(all_links)
        /\ loopset_get_size(Store) = Cardinality(CanonicalCycles(all_links))
        /\ \A r \in loops : objs[r].is_loop
        /\ Len(loops_list) = Cardinality(loops)
        /\ {loops_list[i] : i \in 1 .. Len(loops_list)} = loops
        /\ \A i \in 1 .. Len(loops_list) : objs[loops_list[i]].id = i - 1

\* C1 witness: a search has returned three loops
C1_Witness ==
    /\ pc = "done"
    /\ loopset_get_size(Store) = 3
    /\ Cardinality(CanonicalCycles(all_links)) = 3

\* C3: every concept in at least two stored loops gets the score of the
\* greedy accumulation (seed = last of the list sorted by size descending
\* then repr, best_dist from 1 lowered to the normalized rotation distance
\* to the loop added last, least best_dist removed first, size x best_dist
\* added); for the links A+>B, B+>C, C+>A, B+>D, D->A the table is
\* A = B = 3 + 3 * (1/6) = 7/2 and nothing for C and D.
C3_GreedyScore ==
    pc = "scored" =>
        /\ \A c \in Concepts :
               Cardinality(LoopsWith(c)) >= 2 =>
                   /\ c \in DOMAIN scores[1]
                   /\ scores[1][c] = RefScore(c)
        /\ all_links = ExampleLinks =>
               /\ DOMAIN scores[1] = {0, 1}
               /\ scores[1][0] = Frac(7, 2)
               /\ scores[1][1] = Frac(7, 2)

\* C3 witness: the example network has been scored
C3_Witness ==
    /\ pc = "scored"
    /\ all_links = ExampleLinks
    /\ Cardinality(LoopsWith(0)) = 2

\* C4: after get_loops() and get_concepts_and_scores() a concept has a score
\* entry iff it is the source of a link in at least two stored loops.
C4_EntryIffTwoLoops ==
    pc = "scored" =>
        DOMAIN scores[1] = {c \in Concepts : Cardinality(LoopsWith(c)) >= 2}

\* C4 witness: a scored network with a concept in exactly one loop, one in
\* two or more and one in none
C4_Witness ==
    /\ pc = "scored"
    /\ \E c, d, e \in Concepts :
           /\ Cardinality(LoopsWith(c)) = 1
           /\ Cardinality(LoopsWith(d)) >= 2
           /\ Cardinality(LoopsWith(e)) = 0
           /\ \E l \in all_links : l.source = e

\* C7: whatever order the links were inserted in, the finalized LoopSet
\* (loops, order, ids, representations) and the score table are those of the
\* analysis that inserts the same links in source/target order.
C7_InsertionOrderIrrelevant ==
    /\ Searched => Listing(Store) = Listing(OrderedRun)
    /\ pc = "scored" => scores[1] = get_concepts_and_scores(OrderedRun).scores

\* C7 witness: a scored network with three loops whose nodes were created in
\* another order than source/target order creates them
C7_Witness ==
    /\ pc = "scored"
    /\ Len(loops_list) = 3
    /\ all_nodes # Snapshot(Prune(AddLinks(<<>>, LinksInOrder(all_links))))

----------------------------------------------------------------------------
(* Claims about the edit distance *)

\* C2: levenshtein_distance_with_rotation(a, b) is |a| + |b| when a or b is
\* empty, and otherwise the least classical Levenshtein distance over every
\* pair of rotations; the early return and the pruning of rows do not change
\* the value.
C2_RotationMinimum ==
    pc = "lev_done" =>
        /\ lev_out.ab = RefLevCyclic(lev_a, lev_b)
        /\ (lev_a = <<>> => lev_out.ab = Len(lev_b))
        /\ (lev_b = <<>> => lev_out.ab = Len(lev_a))

\* C2 witness: a pair whose distance lies above the lower bound (no early
\* return) and below the distance of the unrotated sequences
C2_Witness ==
    /\ pc = "lev_done"
    /\ lev_out.ab > Abs(Len(lev_a) - Len(lev_b))
    /\ lev_out.ab < levenshtein_distance(lev_a, lev_b)

\* C9: levenshtein_distance_with_rotation(a, c) is at most
\* levenshtein_distance_with_rotation(a, b) plus
\* levenshtein_distance_with_rotation(b, c).
C9_Triangle ==
    pc = "tri_done" => lev_out.ac <= lev_out.ab + lev_out.bc

\* C9 witness: a triple for which the bound is met with both terms positive
C9_Witness ==
    /\ pc = "tri_done"
    /\ lev_out.ab > 0
    /\ lev_out.bc > 0
    /\ lev_out.ac = lev_out.ab + lev_out.bc

----------------------------------------------------------------------------
(* Claims about the LoopSet *)

\* the least source id of a sequence of links
LeastSource(links) ==
    CHOOSE c \in {links[i].source : i \in 1 .. Len(links)} :
        \A i \in 1 .. Len(links) : c <= links[i].source

\* the rotation of a cycle that starts at its least source id
CanonicalRotation(links) ==
    CHOOSE d \in {Rot(links, k) : k \in 0 .. (Len(links) - 1)} :
        d[1].source = LeastSource(links)

IsRotationOf(x, y) ==
    Len(x) = Len(y) /\ \E k \in 0 .. (Len(x) - 1) : Rot(x, k) = y

LoopSetRuns == pc \in {"adding", "finalized"}

\* C5: every stored loop starts at the least of its source ids and its
\* representation starts with "LOOP: " and that id; a loop handed to add_loop
\* is stored under the representation of the canonical rotation, which is
\* the same for every rotation of the argument.
C5_CanonicalRotation ==
    LoopSetRuns =>
        /\ \A r \in loops :
               /\ objs[r].links[1].source = LeastSource(objs[r].links)
               /\ StartsWith(Str(objs[r]),
                             PrefixLoop \o Decimal(LeastSource(objs[r].links)))
        /\ (call.op = "add_loop" /\ call.ret # None) =>
               \A k \in 0 .. (Len(call.arg) - 1) :
                   /\ objs[call.ret[1]].links = CanonicalRotation(Rot(call.arg, k))
                   /\ Str(objs[call.ret[1]]) =
                          create_short_representation(
                              SequenceOfLinks(CanonicalRotation(Rot(call.arg, k)), 0))

\* C5 witness: add_loop has stored a loop that was handed over in another
\* rotation than the canonical one
C5_Witness ==
    /\ pc = "adding"
    /\ call.op = "add_loop"
    /\ call.ret = Some(next_id - 1)
    /\ call.arg[1].source # LeastSource(call.arg)
    /\ objs[next_id - 1].links # call.arg

NoTwoStoredAlike ==
    \A r, q \in loops : r # q => Str(objs[r]) # Str(objs[q])

\* add_loop(arg) when a rotation of arg is stored as r: nothing stored
\* changes and r is returned
ReAddReturnsStored ==
    \A arg \in LoopArgs : \A r \in loops :
        (AddLoop(arg) /\ IsRotationOf(arg, objs[r].links)) =>
            /\ loops' = loops
            /\ objs' = objs
            /\ loops_list' = loops_list
            /\ loopset_get_size(Store)' = loopset_get_size(Store)
            /\ call'.ret = Some(r)

\* C6: once a loop is stored, add_loop of it or of any rotation of it leaves
\* the LoopSet as it is and returns the loop stored first; no two stored
\* loops have the same representation.
C6_Deduplication == []NoTwoStoredAlike /\ [][ReAddReturnsStored]_vars

\* C6 witness: add_loop of another rotation of a stored loop has returned
\* the stored loop and stored nothing
C6_Witness ==
    /\ pc = "adding"
    /\ call.op = "add_loop"
    /\ call.ret # None
    /\ call.ret[1] < next_id - 1
    /\ call.arg # objs[call.ret[1]].links
    /\ IsRotationOf(call.arg, objs[call.ret[1]].links)
    /\ Cardinality(loops) = 1

\* C8: levenshtein_distance_with_rotation(a, b) and (b, a) are equal, and so
\* are get_distance(x, y) and get_distance(y, x) for the loops of a finalized
\* LoopSet, whatever has been cached and in whichever argument order.
C8_Symmetry ==
    /\ pc = "lev_done" => lev_out.ab = lev_out.ba
    /\ pc = "finalized" =>
           /\ \A i, j \in 1 .. Len(loops_list) :
                  get_distance(Store, loops_list[i], loops_list[j])
                      = get_distance(Store, loops_list[j], loops_list[i])
           /\ call.op = "get_distance" =>
                  /\ get_distance(Store, call.b, call.a) = call.ret
                  /\ distance(objs[call.b], objs[call.a]) = call.ret

\* C8 witness: the distance of two loops of different sizes, first asked for
\* with the loop of the greater id as the first argument
C8_Witness ==
    /\ pc = "finalized"
    /\ call.op = "get_distance"
    /\ objs[call.a].id > objs[call.b].id
    /\ get_size(objs[call.a]) # get_size(objs[call.b])
    /\ FracLess(FracOfInt(0), call.ret)
    /\ Cardinality(DOMAIN distances) = 1

----------------------------------------------------------------------------
(* Claims about the Sequence *)

IsDecreases(link) == link.influence = DECREASES

NumDecreases(links) == Len(SelectSeq(links, IsDecreases))

\* C10: count_negative_influences is the number of DECREASES links in the
\* sequence; a loop is POSITIVE and a REINFORCING_LOOP iff that number is
\* even, NEGATIVE and a BALANCING_LOOP iff it is odd; rotating the loop
\* changes neither.
C10_Polarity ==
    pc = "seq" =>
        /\ seq.count_negative_influences = NumDecreases(seq.links)
        /\ seq.is_loop =>
               /\ (get_polarity(seq) = POSITIVE /\ get_type(seq) = REINFORCING_LOOP)
                      <=> (NumDecreases(seq.links) % 2 = 0)
               /\ (get_polarity(seq) = NEGATIVE /\ get_type(seq) = BALANCING_LOOP)
                      <=> (NumDecreases(seq.links) % 2 = 1)
               /\ get_polarity(rotate(seq)) = get_polarity(seq)
               /\ get_type(rotate(seq)) = get_type(seq)
               /\ rotate(seq).count_negative_influences
                      = NumDecreases(rotate(seq).links)

\* C10 witness: a loop with two DECREASES links that has been rotated away
\* from its first link
C10_Witness ==
    /\ pc = "seq"
    /\ call.op = "rotate"
    /\ seq.is_loop
    /\ NumDecreases(seq.links) = 2
    /\ seq.links[1].source # LeastSource(seq.links)
    /\ get_polarity(seq) = POSITIVE

\* add_link on a closed sequence: False is returned and the links, the
\* flags and the count stay as they are
ClosedRefusesLinks ==
    \A link \in LoopLinks :
        (SeqAddLink(link) /\ seq.is_closed) =>
            /\ call'.ret = FALSE
            /\ seq'.links = seq.links
            /\ seq'.is_closed = seq.is_closed
            /\ seq'.is_loop = seq.is_loop
            /\ seq'.count_negative_influences = seq.count_negative_influences

\* C11: in every state of a Sequence built by add_link from empty, is_loop
\* implies is_closed; once is_closed holds, add_link returns False and
\* changes neither the links, the flags nor the negative count.
C11_ClosedIsFinal ==
    /\ [](pc = "seq" => (seq.is_loop => seq.is_closed))
    /\ [][ClosedRefusesLinks]_vars

\* C11 witness: add_link has been refused on a sequence that closed on a
\* concept other than its first
C11_Witness ==
    /\ pc = "seq"
    /\ call.op = "add_link"
    /\ call.ret = FALSE
    /\ seq.is_closed
    /\ ~seq.is_loop

----------------------------------------------------------------------------
(* Claims about the pruning and the search of the network *)

\* the links held by the outbound maps of a node table
OutLinks(net) ==
    UNION {{net[i].outward_links[k] : k \in 1 .. Len(net[i].outward_links)}
           : i \in 1 .. Len(net)}

\* the links held by the inbound maps of a node table
InLinks(net) == UNION {net[i].inward_links : i \in 1 .. Len(net)}

\* the concepts that have a node in a node table
NodeConcepts(net) == {net[i].concept : i \in 1 .. Len(net)}

\* the links of links that lie on a simple cycle
CycleLinks(links) == UNION {{c[i] : i \in 1 .. Len(c)} : c \in LinkCycles(links)}

\* pruning net to the fixed point keeps every node and every link, in both
\* maps, that lies on a simple cycle of net, and so the simple cycles
PruneKeepsCycles(net) ==
    LET before == OutLinks(net)
    IN  /\ CycleLinks(before) \subseteq OutLinks(Prune(net))
        /\ CycleLinks(before) \subseteq InLinks(Prune(net))
        /\ {l.source : l \in CycleLinks(before)} \subseteq NodeConcepts(Prune(net))
        /\ LinkCycles(OutLinks(Prune(net))) = LinkCycles(before)

\* the chain E+>F
Chain == Link(4, INCREASES, 5)

\* the links added hold one link per cell, and of the links to or from E and
\* F only the chain E+>F
ChainIsolated ==
    /\ Chain \in all_links
    /\ \A l \in all_links \ {Chain} :
           {l.source, l.target} \cap ChainConcepts = {}
    /\ \A l, k \in all_links :
           (l.source = k.source /\ l.target = k.target) => l = k

\* the analysis of the links added without the chain E+>F
RunWithoutChain ==
    get_loops(AddLinks(<<>>, LinksInOrder(all_links \ {Chain})), 0).ls

\* C12: pruning to the fixed point, of the network built and of the network
\* left when any one node is removed, never removes a node or a link that
\* lies on a simple cycle, so that the simple cycles are the same before and
\* after it; and a network with the isolated chain E+>F added gives the same
\* final LoopSet as the network without it.
C12_PruningKeepsCycles ==
    /\ PruneKeepsCycles(nodes)
    /\ \A c \in NodeConcepts(nodes) : PruneKeepsCycles(remove_node(nodes, c))
    /\ (Searched /\ ChainIsolated) => Listing(Store) = Listing(RunWithoutChain)

\* C12 witness: the example with the chain E+>F has been searched; the
\* pruning removed E and F and the search found the two loops
C12_Witness ==
    /\ pc = "done"
    /\ all_links = ExampleLinks \cup {Chain}
    /\ ChainIsolated
    /\ Len(loops_list) = 2
    /\ NodeConcepts(nodes) \cap ChainConcepts = {}

\* no node of net is a source or a sink, and every link of its maps joins
\* two of its nodes
NoSourceNoSink(net) ==
    \A i \in 1 .. Len(net) :
        /\ ~is_source(net[i])
        /\ ~is_sink(net[i])
        /\ \A k \in 1 .. Len(net[i].outward_links) :
               net[i].outward_links[k].target \in NodeConcepts(net)
        /\ \A l \in net[i].inward_links : l.source \in NodeConcepts(net)

\* the concepts with a node in net that lie on no simple cycle of its links
OffCycle(net) ==
    NodeConcepts(net) \ {l.source : l \in CycleLinks(OutLinks(net))}

\* C13 as stated: when the pruning has reached its fixed point, every node
\* still present lies on at least one simple cycle.
C13_EveryNodeOnCycle == pc = "roots" => OffCycle(nodes) = {}

\* C13 as amended: when the pruning has reached its fixed point, no node
\* still present is a source or a sink: each has an inbound link from and an
\* outbound link to a node still present.
C13_NoSourceNoSink ==
    /\ NoSourceNoSink(Prune(nodes))
    /\ pc \in {"roots", "done", "scored"} => NoSourceNoSink(nodes)

\* C13 witness: the pruning of get_loops has run and has left a node that
\* lies on no simple cycle between two that do
C13_Witness ==
    /\ pc = "roots"
    /\ root_idx = 1
    /\ OffCycle(nodes) # {}
    /\ NoSourceNoSink(nodes)

\* C14: after finalize() on a LoopSet with k stored loops, loops_list holds
\* exactly the stored loops, each once, their ids are exactly 0 .. k-1 without
\* repeats, and one loop has a smaller id than another iff its
\* representation string is the smaller one.
C14_DenseSortedIds ==
    Searched =>
        LET k == loopset_get_size(Store)
        IN  /\ Len(loops_list) = k
            /\ {loops_list[i] : i \in 1 .. k} = loops
            /\ {objs[r].id : r \in loops} = 0 .. (k - 1)
            /\ \A r, q \in loops : objs[r].id = objs[q].id => r = q
            /\ \A r, q \in loops :
                   objs[r].id < objs[q].id <=> StrLess(Str(objs[r]), Str(objs[q]))

\* C14 witness: finalize() has numbered three loops or more that were not
\* stored in the order of their representations
C14_Witness ==
    /\ pc = "done"
    /\ Cardinality(loops) >= 3
    /\ loops_list # RefsAscending(loops)

\* the links added have no simple cycle (an empty network has none)
Acyclic == LinkCycles(all_links) = {}

\* C17: when the network is empty or its links have no cycle, the pruning of
\* get_loops removes every node, get_loops returns a finalized LoopSet of
\* size 0 with an empty list, and get_concepts_and_scores on it returns an
\* empty table.
C17_EmptyResult ==
    Acyclic =>
        /\ pc \in {"roots", "done", "scored"} => nodes = <<>> /\ all_nodes = <<>>
        /\ Searched => loopset_get_size(Store) = 0 /\ loops_list = <<>>
        /\ pc = "scored" => scores # None /\ DOMAIN scores[1] = {}

\* C17 witness: a network of four links or more without a cycle has been
\* searched and scored
C17_Witness ==
    /\ pc = "scored"
    /\ Acyclic
    /\ Cardinality(all_links) >= 4
    /\ call.op = "get_concepts_and_scores"

\* the network holds a link for the ordered pair of link
PairHeld(net, link) ==
    \E l \in OutLinks(net) : l.source = link.source /\ l.target = link.target

\* add_link of a link whose ordered pair the network holds changes nothing
DuplicateIgnored ==
    \A link \in LoopLinks :
        (AddLink(link) /\ PairHeld(nodes, link)) => nodes' = nodes

\* C19: add_link(L) leaves the node table and every outbound and inbound map
\* as they were whenever the network already holds a link for the ordered
\* pair (L.source, L.target), be it L or the link of the opposite sign: the
\* link inserted first is kept in both maps.
C19_DuplicateInsert ==
    /\ [][DuplicateIgnored]_vars
    /\ [](pc = "build" => OutLinks(nodes) = InLinks(nodes))

\* C19 witness: D+>A has just been added to a network that held D->A, and
\* both maps still hold D->A only
C19_Witness ==
    /\ pc = "build"
    /\ call.op = "add_link"
    /\ call.link = Link(3, INCREASES, 0)
    /\ Link(3, DECREASES, 0) \in OutLinks(nodes) \cap InLinks(nodes)
    /\ Link(3, INCREASES, 0) \notin OutLinks(nodes) \cup InLinks(nodes)
    /\ Len(nodes) = 4

\* the simple cycles of the links added that pass through concept
CyclesThrough(concept) ==
    {c \in CanonicalCycles(all_links) :
        \E i \in 1 .. Len(c) : c[i].source = concept}

\* between the iterations of the root loop, the loops stored so far and the
\* simple cycles of the network that is left are together the simple cycles
\* of the links added
StoredOrLeft ==
    pc \in {"roots", "done"} =>
        StoredLinks \cup CanonicalCycles(OutLinks(nodes))
            = CanonicalCycles(all_links)

\* an iteration that removes its root has stored every simple cycle through
\* the root
RootCyclesStored ==
    (RootStep /\ all_nodes[root_idx] \in NodeConcepts(nodes)
              /\ all_nodes[root_idx] \notin NodeConcepts(nodes')) =>
        CyclesThrough(all_nodes[root_idx]) \subseteq {objs'[r].links : r \in loops'}

\* C20: in get_loops, when a root node is removed the LoopSet holds every
\* simple cycle of the links added that passes through it; before and after
\* every iteration of the root loop the loops stored so far together with
\* the simple cycles of the remaining network are the simple cycles of the
\* links added.
C20_EliminationSound == []StoredOrLeft /\ [][RootCyclesStored]_vars

\* C20 witness: in the middle of the root loop one loop or more is stored,
\* and the network that is left still has a cycle that is not stored
C20_Witness ==
    /\ pc = "roots"
    /\ root_idx > 1
    /\ StoredLinks # {}
    /\ CanonicalCycles(OutLinks(nodes)) \ StoredLinks # {}

----------------------------------------------------------------------------
(* Claims about the LoopSet after finalize() *)

\* what the scoring and the reports read of a LoopSet: get_size(), the loop
\* counts per concept and per link, the concepts, and the loops listed
CollectionView(ls) ==
    [size |-> loopset_get_size(ls),
     per_concept |-> [c \in Concepts |-> loops_containing_concept(ls, c)],
     per_link |-> [l \in LoopLinks |->
                      loops_containing_link(ls, l.source, l.target)],
     concepts |-> get_all_concepts(ls),
     listed |-> Listing(ls)]

\* add_loop after finalize() leaves the view of the collection as it was
LateAddKeepsView ==
    (pc = "finalized" /\ \E arg \in LoopArgs : AddLoop(arg)) =>
        CollectionView(Store)' = CollectionView(Store)

\* C15: finalize() freezes the collection: an add_loop after it, also of a
\* loop not yet stored, changes neither get_size() nor the loop counts per
\* concept and per link nor the loops used for scoring and reporting.
C15_FinalizeFreezes == [][LateAddKeepsView]_vars

----------------------------------------------------------------------------
(* Claims about the matrix loader and the Concept registry *)

\* text without any of its whitespace
Dense(text) == SelectSeq(text, LAMBDA ch : ch \notin Whitespace)

\* text without any of its whitespace and without one leading '+'
Bare(text) ==
    IF Dense(text) # <<>> /\ Head(Dense(text)) = 43 THEN Tail(Dense(text))
    ELSE Dense(text)

\* the value of a cell is +1 or -1: the number itself, or the integer that
\* the string writes once its whitespace and one leading '+' are removed
SignOf(value) ==
    IF value.kind = "num"
    THEN (IF value.num = value.den THEN 1
          ELSE IF value.num = 0 - value.den THEN -1 ELSE 0)
    ELSE IF value.kind = "str" /\ int_of_str(Bare(value.text)).ok
              /\ int_of_str(Bare(value.text)).value \in {1, -1}
    THEN int_of_str(Bare(value.text)).value
    ELSE 0

\* the cell is empty, missing or zero
EmptyOrZero(value) ==
    \/ value.kind = "nan"
    \/ value.kind = "num" /\ value.num = 0
    \/ /\ value.kind = "str"
       /\ \/ Dense(value.text) = <<>>
          \/ /\ int_of_str(Bare(value.text)).ok
             /\ int_of_str(Bare(value.text)).value = 0

\* C16: a cell gives a Link iff its value is +1 or -1, as a number or as a
\* string that writes +1 or -1 once all whitespace and one leading '+' are
\* removed, and then the link of that sign; an empty, missing or zero cell
\* gives no link and no warning; every other value gives a warning and no
\* link.
C16_CellParsing ==
    (pc = "load" /\ call.op = "cell") =>
        /\ call.outcome = "link" <=> SignOf(call.value) # 0
        /\ call.outcome = "link" =>
               call.link.influence = from_polarity(SignOf(call.value))
        /\ call.outcome = "silent" <=> (SignOf(call.value) = 0 /\ EmptyOrZero(call.value))

\* the registry holds each name once, and the ids of its concepts are
\* 0 .. n-1 in the order the names were entered
RegistryDense ==
    pc = "concepts" =>
        /\ \A i \in 1 .. Len(instances) : instances[i].id = i - 1
        /\ \A i, j \in 1 .. Len(instances) :
               instances[i].name = instances[j].name => i = j
        /\ call.op = "get_concept" =>
               /\ call.ret.name = call.name
               /\ \E i \in 1 .. Len(instances) : instances[i] = call.ret

\* get_concept(name) returns the Concept the registry holds for name and
\* changes nothing, or, for a name asked the first time since the reset, a
\* Concept numbered with the count of the names entered before it; no entry
\* of the registry ever changes
GetConceptStable ==
    \A name \in ConceptNames :
        GetConcept(name) =>
            /\ \A i \in 1 .. Len(instances) : instances'[i] = instances[i]
            /\ Registered(instances, name) =>
                   /\ instances' = instances
                   /\ call'.ret = instances[RegIndex(instances, name)]
            /\ ~Registered(instances, name) =>
                   /\ call'.ret = [name |-> name, id |-> Len(instances)]
                   /\ instances' = Append(instances, call'.ret)

\* C18: after Concept.reset(), over any sequence of get_concept calls the
\* same name gets the same Concept with the same id, distinct names get
\* distinct ids, and the ids in the registry are exactly 0 .. n-1 in the
\* order in which the n names first occurred.
C18_ConceptRegistry == []RegistryDense /\ [][GetConceptStable]_vars

\* C18 witness: after a reset, three names or more are registered and
\* get_concept has just returned the Concept of a name asked before
C18_Witness ==
    /\ pc = "concepts"
    /\ Len(instances) >= 3
    /\ call.op = "get_concept"
    /\ call.ret.id < Len(instances) - 1
    /\ instances[1].name # "A"

----------------------------------------------------------------------------
(* Claims about the order of the loops and the distance cache *)

\* the loop the scoring of concept starts from: the last of the loops sorted
\* by size that have concept as a source
SeedOf(concept) ==
    LET filtered == SourceLoops(objs, loops_sorted_by_size(Store), concept)
    IN  filtered[Len(filtered)].seq

\* C21: loops_sorted_by_size() lists the finalized loops by size descending
\* and, within one size, by representation string ascending; so the seed of
\* the scoring of a concept, the last loop of its filtered list, is among
\* the smallest loops with the concept the one with the greatest
\* representation string.
C21_SortedBySize ==
    Searched =>
        LET sorted == loops_sorted_by_size(Store)
        IN  /\ Len(sorted) = Cardinality(loops)
            /\ {sorted[i] : i \in 1 .. Len(sorted)} = loops
            /\ \A i, j \in 1 .. Len(sorted) :
                   i < j => RefBefore(sorted[i], sorted[j])
            /\ \A c \in Concepts :
                   LoopsWith(c) # {} =>
                       /\ SeedOf(c) \in LoopsWith(c)
                       /\ \A r \in LoopsWith(c) :
                              /\ get_size(objs[SeedOf(c)]) <= get_size(objs[r])
                              /\ get_size(objs[SeedOf(c)]) = get_size(objs[r]) =>
                                     ~StrLess(Str(objs[SeedOf(c)]), Str(objs[r]))

\* C21 witness: a searched network with loops of two sizes, two of them of
\* the smaller size with one concept, listed in another order than loops_list
C21_Witness ==
    /\ pc = "done"
    /\ loops_sorted_by_size(Store) # loops_list
    /\ \E c \in Concepts : \E r, q \in LoopsWith(c) :
           /\ r # q
           /\ get_size(objs[r]) = get_size(objs[q])
           /\ q = SeedOf(c)
           /\ \E t \in LoopsWith(c) : get_size(objs[t]) > get_size(objs[r])

\* the key of the unordered pair of two loops of loops_list
PairKey(x, y) ==
    <<Min2(objs[x].id, objs[y].id),
      IF objs[x].id >= objs[y].id THEN objs[x].id ELSE objs[y].id>>

\* every key of the cache is a pair (i, j), i <= j, of ids of loops of
\* loops_list, and its value is the normalized rotation distance of the two
\* loops with these ids; the value returned last is that of the pair asked
CacheFresh ==
    /\ pc = "adding" => DOMAIN distances = {}
    /\ pc = "finalized" =>
           /\ \A key \in DOMAIN distances :
                  /\ key[1] <= key[2]
                  /\ key[1] \in 0 .. (Len(loops_list) - 1)
                  /\ key[2] \in 0 .. (Len(loops_list) - 1)
                  /\ distances[key] =
                         RefNormalized(loops_list[key[1] + 1],
                                       loops_list[key[2] + 1])
           /\ call.op = "get_distance" =>
                  /\ call.ret = RefNormalized(call.a, call.b)
                  /\ PairKey(call.a, call.b) \in DOMAIN distances

\* the cache changes only by a get_distance call, and then by the key of the
\* pair asked
CacheOnlyQueried ==
    \/ distances' = distances
    \/ \E i, j \in 1 .. Len(loops_list) :
           /\ GetDistance(i, j)
           /\ DOMAIN distances' =
                  DOMAIN distances \cup {PairKey(loops_list[i], loops_list[j])}
           /\ \A key \in DOMAIN distances : distances'[key] = distances[key]

\* C22: after finalize(), over every sequence of get_distance calls on
\* loops of the list, the value returned for a pair is the freshly computed
\* lev_cyclic(a.ids, b.ids) / (|a| + |b|) of that pair, every cache key is an
\* id pair (i, j) with i <= j of one unordered pair of these loops, and the
\* cache holds only pairs that were asked.
C22_CacheConsistent == []CacheFresh /\ [][CacheOnlyQueried]_vars

\* C22 witness: the distance of two different loops was asked after the
\* cache held two other pairs, and it is not 0
C22_Witness ==
    /\ pc = "finalized"
    /\ call.op = "get_distance"
    /\ call.a # call.b
    /\ call.ret # FracOfInt(0)
    /\ Cardinality(DOMAIN distances) = 3

----------------------------------------------------------------------------
(* Claims about the depth-first search *)

\* the add_link calls of the root iteration that comes next
NextRootCalls ==
    IF pc = "roots" /\ root_idx <= Len(all_nodes)
    THEN RootCalls(nodes, all_nodes[root_idx])
    ELSE {}

\* each link of links ends where the next starts, and no source occurs twice
IsSimpleChain(links) ==
    /\ \A i \in 1 .. (Len(links) - 1) : links[i].target = links[i + 1].source
    /\ \A i, j \in 1 .. Len(links) :
           links[i].source = links[j].source => i = j

\* the search of the root iteration makes one Sequence for the root, one for
\* each add_link call collected and one more in add_loop for each loop found
SearchCountsCalls ==
    (pc = "roots" /\ root_idx <= Len(all_nodes) /\ NextRootCalls # {})
        => RootIteration(nodes, Store, all_nodes[root_idx]).ls.next_id
              = next_id + 1 + Cardinality(NextRootCalls)
                + Cardinality({c \in NextRootCalls : c.after.is_loop})

\* C23: in every execution of get_loops(), _get_loops_recursive never calls
\* add_link on a closed sequence, so that add_link never returns False, and
\* every sequence it builds is a chain of links with pairwise distinct
\* sources.
C23_SearchBuildsChains ==
    /\ \A c \in NextRootCalls :
           /\ ~c.before.is_closed
           /\ c.ret = TRUE
           /\ c.after.links = Append(c.before.links, c.link)
           /\ IsSimpleChain(c.after.links)
    /\ SearchCountsCalls

\* C23 witness: the root iteration that comes next builds a sequence of
\* three links that closes without being a loop, and a loop
C23_Witness ==
    /\ \E c \in NextRootCalls :
           Len(c.after.links) = 3 /\ c.after.is_closed /\ ~c.after.is_loop
    /\ \E c \in NextRootCalls : c.after.is_loop

\* get_loops runs to its end once it is called: the iterations over all_nodes
\* and the return are steps of one sequential call.  The steps of NextChain
\* that advance root_idx are those of RootStep, and the steps that leave
\* "roots" are those of FinishGetLoops, so the two conditions are weak
\* fairness of RootStep and of FinishGetLoops, stated on their guards.
SpecChainFair ==
    /\ SpecChain
    /\ WF_root_idx(/\ pc = "roots"
                   /\ root_idx <= Len(all_nodes)
                   /\ root_idx' = root_idx + 1)
    /\ WF_pc(/\ pc = "roots"
             /\ root_idx > Len(all_nodes)
             /\ pc' = "done")

\* the pruning loop over net ends after at most one pass per node and one
\* more, at a node table without sources and sinks
PruneEnds(net) ==
    /\ PrunePasses(net) <= Len(net) + 1
    /\ SourcesAndSinks(Prune(net)) = {}

\* the pruning loops of get_loops end: the one before the search, and the one
\* after the search from the next root; between them the node table is at
\* the fixed point
PruningEnds ==
    /\ pc = "build" => PruneEnds(nodes)
    /\ pc = "roots" => SourcesAndSinks(nodes) = {}
    /\ (pc = "roots" /\ root_idx <= Len(all_nodes)
          /\ HasNode(nodes, all_nodes[root_idx]))
            => PruneEnds(remove_node(nodes, all_nodes[root_idx]))

\* along the search from the next root every recursion level adds one link,
\* and no sequence is longer than the number of nodes
DepthBounded ==
    \A c \in NextRootCalls :
        /\ Len(c.after.links) = Len(c.before.links) + 1
        /\ Len(c.after.links) <= Len(nodes)

\* C24: get_loops terminates: each pruning loop reaches a fixed point, each
\* depth-first search completes, and along any search path the sequence
\* length grows by one per recursion level and never exceeds the number of
\* nodes.
C24_GetLoopsTerminates ==
    /\ [](PruningEnds /\ DepthBounded)
    /\ (pc = "roots") ~> (pc = "done")

\* C24 witness: get_loops has returned after a first pruning loop of four
\* passes and a search that built a sequence over three nodes
C24_Witness ==
    /\ pc = "done"
    /\ PrunePasses(AddLinks(<<>>, LinksInOrder(all_links))) >= 4
    /\ \E r \in loops : Len(objs[r].links) = 3

----------------------------------------------------------------------------
(* Claims about the cached values of a Sequence and of a loader *)

\* C25: after any sequence of add_link, rotate, rotate_to_concept,
\* rotate_to_standard, str() and get_sequence_as_ints() calls on a Sequence,
\* str(seq) equals the representation built from the current order of its
\* links, and get_sequence_as_ints() equals the source ids in the current
\* link order: the cached values are never stale.
C25_RepresentationCoherent ==
    pc = "seq" =>
        /\ Str(seq) = create_short_representation(seq)
        /\ get_sequence_as_ints(seq) = SourceIds(seq.links)

\* the score table of the loop set that loader k holds, which is the one of
\* its most recent load that returned
ScoresOfLastLoad(k) ==
    get_concepts_and_scores(loaders[k].loop_set[1]).scores

\* C26: for any sequence of load_from_adjacency_matrix and get_scores calls
\* on one LoopSetLoader, get_scores() returns the score table computed from
\* the loop set of the most recent successful load: a load that follows an
\* earlier get_scores does not leave the scores of the earlier analysis in
\* place.
C26_ScoresFollowLoad ==
    (pc = "loaders" /\ call.op = "get_scores" /\ call.ret # None)
        => call.ret[1] = ScoresOfLastLoad(call.loader)

----------------------------------------------------------------------------
(* Claims about the node table *)

\* a get_loops() on the node table as it is returns a LoopSet without loops
\* and leaves the table empty
SecondRunEmpty ==
    LET again == get_loops(nodes, next_id)
    IN  /\ again.ls.loops = {}
        /\ again.ls.loops_list = <<>>
        /\ again.nodes = <<>>

\* C27: when get_loops() returns, the node table of the network is empty for
\* every input graph: every node was removed by the pruning or after being
\* used as a root of the search.  A second get_loops() on the same network
\* returns an empty LoopSet.
C27_GraphConsumed ==
    pc \in {"done", "scored"} => (nodes = <<>> /\ SecondRunEmpty)

\* C27 witness: get_loops has returned two loops or more from a graph that
\* held a chain beside its cycles, and the node table is empty
C27_Witness ==
    /\ pc = "done"
    /\ Chain \in all_links
    /\ Cardinality(loops) >= 2
    /\ nodes = <<>>

\* the links the outbound map of node u holds under the key v
OutwardUnder(u, v) ==
    {u.outward_links[k] : k \in {i \in 1 .. Len(u.outward_links) :
                                       u.outward_links[i].target = v}}

\* the links the inbound map of node v holds under the key u
InwardUnder(v, u) == {l \in v.inward_links : l.source = u}

\* the outbound and the inbound maps of a node table mirror each other, link
\* for link, each link is held by the nodes of its two ends, and every key of
\* a map has a node
AdjacencyConsistent(net) ==
    /\ \A i, j \in 1 .. Len(net) :
           /\ OutwardUnder(net[i], net[j].concept)
                  = InwardUnder(net[j], net[i].concept)
           /\ Cardinality(OutwardUnder(net[i], net[j].concept)) <= 1
    /\ \A i \in 1 .. Len(net) :
           /\ \A k \in 1 .. Len(net[i].outward_links) :
                  /\ net[i].outward_links[k].source = net[i].concept
                  /\ net[i].outward_links[k].target \in NodeConcepts(net)
           /\ \A l \in net[i].inward_links :
                  /\ l.target = net[i].concept
                  /\ l.source \in NodeConcepts(net)
    /\ \A i, j \in 1 .. Len(net) : net[i].concept = net[j].concept => i = j

\* C28: in every state reachable by add_link, remove_node and
\* remove_sources_and_sinks, for all nodes u and v of the network, v is a key
\* of the outbound map of u iff u is a key of the inbound map of v, both maps
\* hold the same link for that pair, and no map refers to a concept that has
\* no node: remove_node leaves no dangling link to or from the removed node.
C28_AdjacencyConsistent ==
    pc = "net" => AdjacencyConsistent(nodes)

\* C28 witness: remove_node has taken a node that had links in both
\* directions out of a table that still holds links
C28_Witness ==
    /\ pc = "net"
    /\ call.op = "remove_node"
    /\ \E l, m \in all_links : l.source = call.concept /\ m.target = call.concept
                                /\ l.target # call.concept
    /\ call.concept \notin NodeConcepts(nodes)
    /\ OutLinks(nodes) # {}

----------------------------------------------------------------------------
(* Claims about the loops handed to add_loop and about two loaders *)

\* the sequences that the search from the next root hands to add_loop
LoopsFound == {c.after : c \in {d \in NextRootCalls : d.after.is_loop}}

\* the representation add_loop looks up for to_add
LookedUp(to_add) == Str(rotate_to_standard(CopySequence(to_add, 0)))

\* the representations of the stored loops
StoredReprs == {Str(objs[r]) : r \in loops}

\* C29: during get_loops(), every loop the search hands to add_loop is new:
\* add_loop never finds a stored loop with the same representation, so each
\* simple cycle is discovered exactly once over the whole enumeration.
C29_EveryLoopNew ==
    (pc = "roots" /\ root_idx <= Len(all_nodes)) =>
        /\ \A found \in LoopsFound : LookedUp(found) \notin StoredReprs
        /\ \A f, g \in LoopsFound : LookedUp(f) = LookedUp(g) => f = g
        /\ Cardinality(RootIteration(nodes, Store, all_nodes[root_idx]).ls.loops)
              = Cardinality(loops) + Cardinality(LoopsFound)

\* C29 witness: loops are stored, and the search from the next root hands
\* two more loops to add_loop
C29_Witness ==
    /\ pc = "roots"
    /\ loops # {}
    /\ Cardinality(LoopsFound) >= 2

\* the concepts of the input loader k loaded last, as Concept.get_all()
\* listed them when that load returned
OwnConcepts(k) ==
    load_adjacency_matrix(loaders[k].filepath[1], 1, <<>>, 0, {}).instances

\* C30: analyses do not leak into each other through the process-wide
\* concept registry: for two LoopSetLoader objects where the second loads its
\* input after the first, the report write_concept_node_file of the first
\* loader still lists exactly the concepts of the input of the first loader,
\* each with its own loop count and score.
C30_ReportsOwnConcepts ==
    (pc = "loaders" /\ call.op = "write_concept_node_file")
        => call.rows = concept_node_rows(loaders[call.loader],
                                         OwnConcepts(call.loader))

=============================================================================
